---- MODULE Spec2Model ----
(***************************************************************************)
(* Model of src/linux/vulkan_processor/vulkan_processor.c: the process-wide *)
(* Vulkan Device Context (vk_init / vk_cleanup) and the per-call GPU work  *)
(* item of vk_process_image_internal, reached from the three processing    *)
(* entry points.  Every Vulkan call whose result the code can observe is a *)
(* point where the driver may report failure.                              *)
(***************************************************************************)
EXTENDS Integers, Sequences, FiniteSets, TLC

(***************************************************************************)
(* Bounds of the exploration.                                              *)
(***************************************************************************)
\* Driver failures injected into one processing call.
MaxFaults == 1
\* Processing calls are started only while at most this many per-call
\* handles have outlived their call.
MaxLeaked == 0
\* vk_init attempts are started only while at most this many instances live.
MaxInstances == 1
\* Images are 1..MaxDim pixels wide and high.
MaxDim == 4
\* The dispatch is also looked at for images up to MaxWide pixels wide and
\* high, so that more than one workgroup per row and column is needed.
MaxWide == 34
\* API calls made in each of two runs that are compared.
MaxCalls == 3

\* Memory types of a device.
MaxTypes == 3
\* Buffer sizes are also computed for images HugeDim pixels wide or high.
HugeDim == 65536
\* Crop coordinates are multiples of 1/Grid; a float v is held as the
\* integer v * Grid.
Grid == 4

(***************************************************************************)
(* Program constants.                                                      *)
(***************************************************************************)
\* desc_pool_info.maxSets
MaxSets == 10
\* float packed_params[20]
PackedCount == 20
\* malloc(sizeof(float) * 18), passed on as adjustment_count
ExtendedCount == 18
\* for (i = adjustment_count; i < 14; i++)
BaseCount == 14
\* local_size of the compute shader, as used for the dispatch
WorkgroupSize == 16
\* size_t lut_size = 256 (line 587); uint8_t identity_lut[256]
LutSize == 256
\* INT_MAX of the int in which width * height is computed (line 482)
IntMax == 2147483647

Threads == {"A", "B"}

(***************************************************************************)
(* The static handles of the translation unit (lines 14-29).  A handle is  *)
(* "null" (VK_NULL_HANDLE), "live", or "dangling": the variable still      *)
(* holds the value of an object that has been destroyed.                   *)
(***************************************************************************)
CtxObjs == {"instance", "device", "compute_queue", "command_pool",
            "descriptor_pool", "compute_pipeline", "pipeline_layout",
            "descriptor_set_layout", "compute_shader_module", "command_buffer"}

\* physical_device: idx = 0 is VK_NULL_HANDLE; stale = the handle was
\* enumerated from an instance older than the current one.
NullPD == [idx |-> 0, stale |-> FALSE]

\* What vkEnumeratePhysicalDevices / vkGetPhysicalDeviceQueueFamilyProperties
\* report: a sequence of devices, each a sequence of queue families, TRUE
\* for a family with VK_QUEUE_COMPUTE_BIT.
DevConfigs == { <<>>,
                << <<FALSE>> >>,
                << <<TRUE>> >>,
                << <<FALSE>>, <<FALSE, TRUE>> >> }

\* The globals as they are after static initialisation, with the driver's
\* own accounting: live = number of live driver objects of each type,
\* cmd = state of the shared command buffer, sets = descriptor sets
\* allocated from the current pool, leaked = per-call buffers and memory
\* objects that outlived the call that created them, log = the destroy
\* calls of the last vk_cleanup that ran, twice = some object was destroyed
\* a second time, recorded = the commands in the shared command buffer.
InitialContext ==
    [ initialized |-> 0,
      processing |-> 0,
      ctx |-> [o \in CtxObjs |-> "null"],
      physical_device |-> NullPD,
      queue_family_index |-> 0,
      live |-> [o \in CtxObjs |-> 0],
      cmd |-> "none",
      sets |-> 0,
      leaked |-> 0,
      log |-> <<>>,
      twice |-> FALSE,
      recorded |-> <<>> ]

(***************************************************************************)
(* vk_cleanup (lines 1126-1164).                                           *)
(***************************************************************************)
\* Children of the device in the order vk_cleanup destroys them.
DeviceChildren == <<"command_pool", "descriptor_pool", "compute_shader_module",
                    "compute_pipeline", "pipeline_layout", "descriptor_set_layout">>

\* One vkDestroy* call on the handle held in G.ctx[o].  Destroying the
\* command pool frees its command buffer, destroying the descriptor pool
\* frees its sets, destroying the device retires its queue.
DestroyObject(G, o) ==
    LET gone == CASE o = "command_pool" -> {o, "command_buffer"}
                  [] o = "device" -> {o, "compute_queue"}
                  [] OTHER -> {o}
    IN [G EXCEPT
          !.ctx = [x \in CtxObjs |->
                     IF x \in gone /\ G.ctx[x] = "live" THEN "dangling" ELSE G.ctx[x]],
          !.live = [x \in CtxObjs |->
                     IF x \in gone /\ G.ctx[x] = "live" THEN G.live[x] - 1 ELSE G.live[x]],
          !.cmd = IF o = "command_pool" THEN "none" ELSE G.cmd,
          !.recorded = IF o = "command_pool" THEN <<>> ELSE G.recorded,
          !.sets = IF o = "descriptor_pool" THEN 0 ELSE G.sets,
          !.twice = G.twice \/ G.ctx[o] = "dangling",
          !.log = Append(G.log, o)]

RECURSIVE DestroyAll(_, _)
DestroyAll(G, objs) ==
    IF objs = <<>> THEN G
    ELSE DestroyAll(DestroyObject(G, Head(objs)), Tail(objs))

\* A teardown that destroys the instance before the device and its children.
CleanupOrder_InstanceFirst(G) ==
    (IF G.ctx["instance"] # "null" THEN <<"instance">> ELSE <<>>)
    \o (IF G.ctx["device"] # "null"
          THEN SelectSeq(DeviceChildren, LAMBDA o : G.ctx[o] # "null") \o <<"device">>
          ELSE <<>>)

\* The destroy calls vk_cleanup makes, in order, given the handles it sees.
CleanupOrder(G) ==
    (IF G.ctx["device"] # "null"
       THEN SelectSeq(DeviceChildren, LAMBDA o : G.ctx[o] # "null") \o <<"device">>
       ELSE <<>>)
    \o (IF G.ctx["instance"] # "null" THEN <<"instance">> ELSE <<>>)

\* A vk_cleanup without the test of line 1127.
vk_cleanup_g_NoCheck(G) ==
    LET G1 == [G EXCEPT !.log = IF G.ctx["device"] # "null"
                                   THEN <<"wait_idle">> ELSE <<>>]
    IN [DestroyAll(G1, CleanupOrder(G1)) EXCEPT !.initialized = 0]

\* A vk_cleanup that leaves initialized set.
vk_cleanup_g_KeepsInitialized(G) ==
    IF G.initialized = 0 THEN G
    ELSE LET G1 == [G EXCEPT !.log = IF G.ctx["device"] # "null"
                                        THEN <<"wait_idle">> ELSE <<>>]
         IN DestroyAll(G1, CleanupOrder(G1))

\* vk_cleanup as a function of the globals.  No handle is reset to
\* VK_NULL_HANDLE and the processing flag is not touched.
vk_cleanup_g(G) ==
    IF G.initialized = 0 THEN G
    ELSE LET G1 == [G EXCEPT !.log = IF G.ctx["device"] # "null"
                                        THEN <<"wait_idle">> ELSE <<>>]
         IN [DestroyAll(G1, CleanupOrder(G1)) EXCEPT !.initialized = 0]

(***************************************************************************)
(* vk_init (lines 76-376).                                                 *)
(***************************************************************************)
InitSteps == <<"instance", "physical_device", "device", "command_pool",
               "descriptor_set_layout", "pipeline_layout", "shader_file",
               "compute_shader_module", "compute_pipeline", "descriptor_pool",
               "command_buffer">>

\* The steps whose failure the driver or the file system decides.
InitFaults == {"instance", "device", "command_pool", "descriptor_set_layout",
               "pipeline_layout", "shader_file", "compute_shader_module",
               "compute_pipeline", "descriptor_pool", "command_buffer"}

\* The failure branches that call vk_cleanup() before returning 0
\* (lines 245-371); the earlier ones return at once (lines 97-177).
InitCleansUp == {"descriptor_set_layout", "pipeline_layout", "shader_file",
                 "compute_shader_module", "compute_pipeline", "descriptor_pool",
                 "command_buffer"}

ComputeFamilies(dev) == {j \in 1..Len(dev) : dev[j]}

MinOf(S) == CHOOSE x \in S : \A y \in S : x <= y

\* The selection loop of lines 114-131 from device i on: pd and qfi are
\* physical_device and queue_family_index as the loop finds them.
RECURSIVE PickDevice(_, _, _, _)
PickDevice(cfg, i, pd, qfi) ==
    IF i > Len(cfg) THEN [pd |-> pd, qfi |-> qfi]
    ELSE LET fams == ComputeFamilies(cfg[i])
             pd1 == IF fams # {} THEN [idx |-> i, stale |-> FALSE] ELSE pd
             q1 == IF fams # {} THEN MinOf(fams) - 1 ELSE qfi
         IN IF pd1.idx # 0 THEN [pd |-> pd1, qfi |-> q1]
            ELSE PickDevice(cfg, i + 1, pd1, q1)

\* The effect of one successful creation step of vk_init.
InitCreate(G, step) ==
    LET made == CASE step = "device" -> {"device", "compute_queue"}
                  [] step = "shader_file" -> {}
                  [] OTHER -> {step}
    IN [G EXCEPT
          !.ctx = [x \in CtxObjs |-> IF x \in made THEN "live" ELSE G.ctx[x]],
          !.live = [x \in CtxObjs |-> IF x \in made THEN G.live[x] + 1 ELSE G.live[x]],
          !.physical_device =
              IF step = "instance" /\ G.physical_device.idx # 0
                THEN [G.physical_device EXCEPT !.stale = TRUE]
                ELSE G.physical_device,
          !.cmd = IF step = "command_buffer" THEN "initial" ELSE G.cmd,
          !.recorded = IF step = "command_buffer" THEN <<>> ELSE G.recorded,
          !.sets = IF step = "descriptor_pool" THEN 0 ELSE G.sets]

\* vk_init from step i on; fault is the step that fails ("none": no step
\* does).  ub is TRUE when vkCreateDevice was handed a stale physical device.
RECURSIVE InitFrom(_, _, _, _, _)
InitFrom(G, i, cfg, fault, ub) ==
    IF i > Len(InitSteps)
      THEN [g |-> [G EXCEPT !.initialized = 1], ret |-> 1, ub |-> ub]
    ELSE LET step == InitSteps[i] IN
      IF step = "physical_device"
        THEN IF Len(cfg) = 0 THEN [g |-> G, ret |-> 0, ub |-> ub]
             ELSE LET p == PickDevice(cfg, 1, G.physical_device, G.queue_family_index)
                      G1 == [G EXCEPT !.physical_device = p.pd,
                                      !.queue_family_index = p.qfi]
                  IN IF p.pd.idx = 0 THEN [g |-> G1, ret |-> 0, ub |-> ub]
                     ELSE InitFrom(G1, i + 1, cfg, fault, ub)
      ELSE IF step = fault
        THEN [g |-> IF step \in InitCleansUp THEN vk_cleanup_g(G) ELSE G,
              ret |-> 0,
              ub |-> ub \/ (step = "device" /\ G.physical_device.stale)]
      ELSE InitFrom(InitCreate(G, step), i + 1, cfg, fault,
                    ub \/ (step = "device" /\ G.physical_device.stale))

\* A vk_init without the test of line 78.
vk_init_g_NoEarlyReturn(G, cfg, fault) ==
    InitFrom(G, 1, cfg, fault, FALSE)

\* A vk_init that sets initialized before it checks the result of
\* vkAllocateCommandBuffers.
vk_init_g_FlagBeforeLastCheck(G, cfg, fault) ==
    IF G.initialized # 0 THEN [g |-> G, ret |-> 1, ub |-> FALSE]
    ELSE LET r == InitFrom(G, 1, cfg, fault, FALSE)
         IN IF fault = "command_buffer" /\ r.ret = 0
              THEN [r EXCEPT !.g.initialized = 1]
              ELSE r

vk_init_g(G, cfg, fault) ==
    IF G.initialized # 0 THEN [g |-> G, ret |-> 1, ub |-> FALSE]
    ELSE InitFrom(G, 1, cfg, fault, FALSE)

(***************************************************************************)
(* vk_process_image_internal (lines 425-1014): the per-call handles.       *)
(***************************************************************************)
\* The checked creation points, in source order (lines 508-727).
CheckedCreates == <<"input_buffer", "input_memory", "output_buffer", "output_memory",
                    "uniform_buffer", "uniform_memory",
                    "rgb_lut_buffer", "red_lut_buffer", "green_lut_buffer", "blue_lut_buffer",
                    "rgb_lut_memory", "red_lut_memory", "green_lut_memory", "blue_lut_memory">>

\* The creation points whose result is discarded (lines 785-824).
UncheckedCreates == <<"staging_in", "staging_in_memory", "staging_out",
                      "staging_out_memory", "descriptor_set">>

\* Per-call buffers and device memory objects.
BufferKinds == {CheckedCreates[i] : i \in 1..Len(CheckedCreates)}
                 \cup {"staging_in", "staging_in_memory", "staging_out", "staging_out_memory"}

LutKinds == {"rgb_lut_buffer", "red_lut_buffer", "green_lut_buffer", "blue_lut_buffer",
             "rgb_lut_memory", "red_lut_memory", "green_lut_memory", "blue_lut_memory"}

StagingKinds == {"staging_in", "staging_in_memory", "staging_out", "staging_out_memory"}

Kinds == BufferKinds \cup {"descriptor_set"}

\* A call that maps the output staging memory before it waits for the queue.
ProcSteps_MapsBeforeWait ==
    CheckedCreates \o
    <<"upload", "staging_in", "staging_in_memory", "upload_input",
      "staging_out", "staging_out_memory", "descriptor_set",
      "update_descriptors", "begin", "record", "end", "submit", "download",
      "wait", "release", "free_set", "reset", "clear">>

\* A call that clears the processing flag as soon as its buffers are
\* released.
ProcSteps_ClearsFirst ==
    CheckedCreates \o
    <<"upload", "staging_in", "staging_in_memory", "upload_input",
      "staging_out", "staging_out_memory", "descriptor_set",
      "update_descriptors", "begin", "record", "end", "submit", "wait",
      "download", "release", "clear", "free_set", "reset">>

\* The steps of one call after the guard, in source order.
ProcSteps == CheckedCreates \o
             <<"upload", "staging_in", "staging_in_memory", "upload_input",
               "staging_out", "staging_out_memory", "descriptor_set",
               "update_descriptors", "begin", "record", "end", "submit", "wait",
               "download", "release", "free_set", "reset", "clear">>

StepIndex(s) == CHOOSE i \in 1..Len(ProcSteps) : ProcSteps[i] = s

NextStep(s) == ProcSteps[StepIndex(s) + 1]

\* The prefix input, output, uniform that every later failure branch releases.
BaseUnwind == <<"input_buffer", "input_memory", "output_buffer", "output_memory",
                "uniform_buffer", "uniform_memory">>

\* Failure branches that release everything in the order of creation.
UnwindAt_CreationOrder(s) ==
    IF s = "begin"
      THEN <<"staging_in", "staging_in_memory", "staging_out",
             "staging_out_memory">> \o BaseUnwind
      ELSE SubSeq(CheckedCreates, 1,
                  (CHOOSE i \in 1..Len(CheckedCreates) : CheckedCreates[i] = s) - 1)

\* What the failure branch of each checked call releases, in the order of
\* the vkDestroyBuffer / vkFreeMemory calls of that branch.
UnwindAt(s) ==
    CASE s = "input_buffer"   -> <<>>
      [] s = "input_memory"   -> <<"input_buffer">>
      [] s = "output_buffer"  -> <<"input_buffer", "input_memory">>
      [] s = "output_memory"  -> <<"input_buffer", "input_memory", "output_buffer">>
      [] s = "uniform_buffer" -> <<"input_buffer", "input_memory", "output_buffer",
                                   "output_memory">>
      [] s = "uniform_memory" -> <<"input_buffer", "input_memory", "output_buffer",
                                   "output_memory", "uniform_buffer">>
      [] s = "rgb_lut_buffer" -> BaseUnwind
      [] s = "red_lut_buffer" -> <<"rgb_lut_buffer">> \o BaseUnwind
      [] s = "green_lut_buffer" -> <<"red_lut_buffer", "rgb_lut_buffer">> \o BaseUnwind
      [] s = "blue_lut_buffer" -> <<"green_lut_buffer", "red_lut_buffer",
                                    "rgb_lut_buffer">> \o BaseUnwind
      [] s = "rgb_lut_memory" -> <<"blue_lut_buffer", "green_lut_buffer",
                                   "red_lut_buffer", "rgb_lut_buffer">> \o BaseUnwind
      [] s = "red_lut_memory" -> <<"rgb_lut_memory", "blue_lut_buffer", "green_lut_buffer",
                                   "red_lut_buffer", "rgb_lut_buffer">> \o BaseUnwind
      [] s = "green_lut_memory" -> <<"red_lut_memory", "rgb_lut_memory", "blue_lut_buffer",
                                     "green_lut_buffer", "red_lut_buffer",
                                     "rgb_lut_buffer">> \o BaseUnwind
      [] s = "blue_lut_memory" -> <<"green_lut_memory", "red_lut_memory", "rgb_lut_memory",
                                    "blue_lut_buffer", "green_lut_buffer", "red_lut_buffer",
                                    "rgb_lut_buffer">> \o BaseUnwind
      [] s = "begin" -> <<"staging_in", "staging_in_memory", "staging_out",
                          "staging_out_memory">> \o BaseUnwind

\* The failure branches that execute processing = 0 (lines 594-711).
ClearsGuard(s) == s \in LutKinds

\* A success path that forgets the LUT buffers, as the failure branch of
\* vkBeginCommandBuffer does.
SuccessRelease_SkipsLuts(lutNull) ==
    <<"staging_in", "staging_in_memory", "staging_out", "staging_out_memory">>
    \o BaseUnwind

\* The release calls of the success path (lines 983-1004).
SuccessRelease(lutNull) ==
    <<"staging_in", "staging_in_memory", "staging_out", "staging_out_memory">>
    \o BaseUnwind
    \o (IF ~lutNull
          THEN <<"rgb_lut_buffer", "rgb_lut_memory", "red_lut_buffer", "red_lut_memory",
                 "green_lut_buffer", "green_lut_memory", "blue_lut_buffer",
                 "blue_lut_memory">>
          ELSE <<>>)

\* The per-call handles a step hands to the driver before it creates
\* anything, and the ones it hands over after its own creation call.
Uses(s) ==
    CASE s = "staging_in_memory" -> {"staging_in"}
      [] s = "upload_input" -> {"staging_in_memory"}
      [] s = "staging_out_memory" -> {"staging_out"}
      [] s = "update_descriptors" -> {"descriptor_set"}
      [] s = "record" -> {"staging_in", "staging_out", "descriptor_set"}
      [] s = "download" -> {"staging_out_memory"}
      [] s = "release" -> StagingKinds
      [] s = "free_set" -> {"descriptor_set"}
      [] OTHER -> {}

PostUses(s) ==
    CASE s = "staging_in_memory" -> {"staging_in_memory"}
      [] s = "staging_out_memory" -> {"staging_out_memory"}
      [] OTHER -> {}

\* The locals of a call that has not started.  h: state of each local
\* handle, "none" (not yet created), "live", "bad" (the creation call failed
\* and the variable was never assigned a valid handle) or "freed"; rel: the
\* release calls made so far, in order; used: handles passed to the driver
\* while "bad"; failedAt: the checked call whose failure ended the call;
\* execFail: unchecked recording / submission calls that failed; out: whether
\* *output_pixels has been assigned; calls: the calls on the command buffer
\* and the queue made so far, and the mapping of the output staging memory,
\* in order.  For a vk_cleanup call, destroys holds the calls it made on
\* the device and the instance.  For a vk_init call, enumerated tells
\* whether vkEnumeratePhysicalDevices was reached (lines 103-111) and devices
\* is the list it returned.
NoLocals ==
    [ h |-> [k \in Kinds |-> "none"],
      rel |-> <<>>,
      used |-> {},
      failedAt |-> "none",
      execFail |-> {},
      faults |-> 0,
      lutNull |-> FALSE,
      out |-> "unwritten",
      calls |-> <<>>,
      enumerated |-> FALSE,
      devices |-> <<>>,
      destroys |-> <<>> ]

\* vkDestroyBuffer / vkFreeMemory on the handles named by ks, in order.
RECURSIVE ReleaseAll(_, _)
ReleaseAll(L, ks) ==
    IF ks = <<>> THEN L
    ELSE LET k == Head(ks)
             L1 == [L EXCEPT !.h[k] = IF L.h[k] = "live" THEN "freed" ELSE L.h[k],
                             !.rel = Append(L.rel, k),
                             !.used = IF L.h[k] = "bad" THEN L.used \cup {k} ELSE L.used]
         IN ReleaseAll(L1, Tail(ks))

LiveBuffers(L) == {k \in BufferKinds : L.h[k] = "live"}

Count(seq, x) == Cardinality({i \in 1..Len(seq) : seq[i] = x})

\* A recording that dispatches before the upload is made visible.
RecordedCommands_DispatchFirst ==
    <<"copy_input", "bind_pipeline", "bind_descriptor_sets", "dispatch",
      "barrier_transfer_to_compute", "barrier_compute_to_transfer", "copy_output">>

\* The vkCmd* calls of lines 924-961 in source order.  Both barriers are
\* VkMemoryBarrier, not tied to a buffer.
RecordedCommands ==
    <<"copy_input", "barrier_transfer_to_compute", "bind_pipeline",
      "bind_descriptor_sets", "dispatch", "barrier_compute_to_transfer",
      "copy_output">>

\* A probe that forgets to destroy its instance.
vk_is_available_g_KeepsInstance(G, ok) ==
    IF ok THEN [g |-> [G EXCEPT !.live["instance"] = @ + 1], ret |-> 1]
    ELSE [g |-> G, ret |-> 0]

\* vk_is_available (lines 378-399): test_instance is a local; ok tells
\* whether vkCreateInstance succeeded.
vk_is_available_g(G, ok) ==
    IF ok
      THEN LET G1 == [G EXCEPT !.live["instance"] = @ + 1]
           IN [g |-> [G1 EXCEPT !.live["instance"] = @ - 1], ret |-> 1]
      ELSE [g |-> G, ret |-> 0]

(***************************************************************************)
(* Geometry and uniform packing (lines 455-490, 749-776, 946-947,          *)
(* 1055-1116).  An adjustment vector is a sequence of floats; index i of   *)
(* the C array is element i + 1 of the sequence.  Products of a crop       *)
(* coordinate and a dimension are exact on this grid, so round() sees the  *)
(* exact product.                                                          *)
(***************************************************************************)
\* (float)n for an int n.
Q(n) == n * Grid

\* A (int)x that drops the fraction instead of rounding.
RoundQ_Truncates(x) == IF x >= 0 THEN x \div Grid ELSE -((-x) \div Grid)

\* (int)round(x): to the nearest integer, halves away from zero.
RoundQ(x) ==
    IF x >= 0 THEN (2 * x + Grid) \div (2 * Grid)
    ELSE -((2 * (-x) + Grid) \div (2 * Grid))

\* x + y of 32-bit two's complement integers, the sum wrapped.
AddWrap(x, y) ==
    IF x >= 0 /\ y >= 0 /\ x > IntMax - y
      THEN (x - IntMax - 1) + (y - IntMax - 1)
    ELSE IF x < 0 /\ y < 0 /\ x < (0 - IntMax - 1) - y
      THEN (x + IntMax + 1) + (y + IntMax + 1)
    ELSE x + y

\* a * b of 32-bit two's complement integers, b >= 0, the product wrapped.
RECURSIVE MulWrap(_, _)
MulWrap(a, b) ==
    IF b = 0 THEN 0
    ELSE LET h == MulWrap(a, b \div 2)
             d == AddWrap(h, h)
         IN IF b % 2 = 1 THEN AddWrap(d, a) ELSE d

Abs(x) == IF x >= 0 THEN x ELSE 0 - x

\* The product a * b does not fit an int.
IntMulOverflows(a, b) == b # 0 /\ Abs(a) > IntMax \div Abs(b)

\* a * b of two ints as the usual build computes it: the exact product if
\* it fits, else the low 32 bits.
IntMul(a, b) ==
    IF IntMulOverflows(a, b)
      THEN (IF b >= 0 THEN MulWrap(a, b) ELSE MulWrap(0 - a, 0 - b))
      ELSE a * b

\* a / b of C ints, b > 0: the quotient truncated toward zero.
CDiv(a, b) == IF a >= 0 THEN a \div b ELSE -((-a) \div b)

\* A group count that drops the partly filled last group.
GroupCount_RoundsDown(x) == CDiv(x, WorkgroupSize)

\* (x + 15) / 16 (lines 946-947).
GroupCount(x) == CDiv(x + (WorkgroupSize - 1), WorkgroupSize)

FullFrame == [left |-> 0, top |-> 0, right |-> Grid, bottom |-> Grid]

\* A validation that clamps and never falls back.
ValidateCrop_ClampOnly(c) ==
    [left |-> IF c.left < 0 THEN 0 ELSE c.left,
     top |-> IF c.top < 0 THEN 0 ELSE c.top,
     right |-> IF c.right > Grid THEN Grid ELSE c.right,
     bottom |-> IF c.bottom > Grid THEN Grid ELSE c.bottom]

\* Lines 1055-1066.
ValidateCrop(c) ==
    LET c1 == [left |-> IF c.left < 0 THEN 0 ELSE c.left,
               top |-> IF c.top < 0 THEN 0 ELSE c.top,
               right |-> IF c.right > Grid THEN Grid ELSE c.right,
               bottom |-> IF c.bottom > Grid THEN Grid ELSE c.bottom]
    IN IF c1.left >= c1.right \/ c1.top >= c1.bottom THEN FullFrame ELSE c1

\* right_px - left_px and bottom_px - top_px (lines 469-475, 1070-1076).
CropWidth(c, width) == RoundQ(c.right * width) - RoundQ(c.left * width)
CropHeight(c, height) == RoundQ(c.bottom * height) - RoundQ(c.top * height)

\* A packing that copies the fourteen base parameters only.
PackParams_CopiesBaseOnly(width, height, adj, n) ==
    [i \in 1..PackedCount |->
       LET k == i - 1 IN
       IF k = 11 THEN Q(width)
       ELSE IF k = 12 THEN Q(height)
       ELSE IF k = 14 /\ n < 15 THEN 0
       ELSE IF k = 15 /\ n < 16 THEN 0
       ELSE IF k = 16 /\ n < 17 THEN Grid
       ELSE IF k = 17 /\ n < 18 THEN Grid
       ELSE IF k < n /\ (k < BaseCount \/ k \in 14..17) THEN adj[i]
       ELSE 0]

\* packed_params as lines 754-770 leave it: zero-initialised, the first
\* min(n, 20) adjustments copied, then 11 and 12 and the crop defaults
\* written over them.
PackParams(width, height, adj, n) ==
    [i \in 1..PackedCount |->
       LET k == i - 1 IN
       IF k = 11 THEN Q(width)
       ELSE IF k = 12 THEN Q(height)
       ELSE IF k = 14 /\ n < 15 THEN 0
       ELSE IF k = 15 /\ n < 16 THEN 0
       ELSE IF k = 16 /\ n < 17 THEN Grid
       ELSE IF k = 17 /\ n < 18 THEN Grid
       ELSE IF k < (IF n < PackedCount THEN n ELSE PackedCount) THEN adj[i]
       ELSE 0]

\* The sizes, the uniform block and the dispatch of
\* vk_process_image_internal for the arguments it receives.
InternalGeometry(width, height, adj, n) ==
    LET crops == n >= 18
        c == IF crops THEN [left |-> adj[15], top |-> adj[16],
                            right |-> adj[17], bottom |-> adj[18]]
             ELSE FullFrame
        ow == IF crops THEN CropWidth(c, width) ELSE width
        oh == IF crops THEN CropHeight(c, height) ELSE height
        input_size == IntMul(width, height) * 3
        output_size == IntMul(ow, oh) * 4
    IN [ output_width |-> ow,
         output_height |-> oh,
         input_size |-> input_size,
         output_size |-> output_size,
         input_buffer_size |-> ((input_size + 3) \div 4) * 4,
         output_buffer_size |-> output_size,
         uniform_size |-> 4 * PackedCount,
         packed |-> PackParams(width, height, adj, n),
         group_count_x |-> GroupCount(ow),
         group_count_y |-> GroupCount(oh) ]

\* extended_adjustments as lines 1094-1109 leave it.  With n above 18 the
\* memcpy of line 1094 also writes n - 18 floats past the allocation.
ExtendAdjustments(width, height, adj, n, c) ==
    [i \in 1..ExtendedCount |->
       LET k == i - 1 IN
       IF k = 14 THEN c.left
       ELSE IF k = 15 THEN c.top
       ELSE IF k = 16 THEN c.right
       ELSE IF k = 17 THEN c.bottom
       ELSE IF k = 11 THEN Q(width)
       ELSE IF k = 12 THEN Q(height)
       ELSE IF k < n THEN adj[i]
       ELSE 0]

\* A table that is off by one.
IdentityLut_OffByOne == [i \in 0..(LutSize - 1) |-> (i + 1) % 256]

\* identity_lut as the loop of lines 410-412 fills it: the int i stored in
\* a uint8_t.
IdentityLut == [i \in 0..(LutSize - 1) |-> i % 256]

\* The contents of the four LUT buffers after the memcpy calls of lines
\* 731-745: lut_size bytes from each of the caller's tables, in the order
\* rgb, red, green, blue.
UploadLuts(luts) == [c \in 1..4 |-> [i \in 0..(LutSize - 1) |-> luts[c][i]]]

\* What one processing call computes from its arguments.  reported holds
\* *output_width and *output_height of the crop form and is empty for the
\* other two, which have no such parameters; eff is the crop rectangle the
\* crop form settles on; recv_adj and recv_n are the vector and count that
\* reach vk_process_image_internal; overflow: the memcpy of line 1094 wrote
\* past extended_adjustments.
ProcessGeometry(entry, width, height, adj, n, crop) ==
    IF entry = "vk_process_image_with_curves_and_crop"
      THEN LET eff == ValidateCrop(crop)
               ext == ExtendAdjustments(width, height, adj, n, eff)
           IN [ entry |-> entry, width |-> width, height |-> height,
                adj |-> adj, n |-> n, crop |-> crop, eff |-> eff,
                reported |-> <<CropWidth(eff, width), CropHeight(eff, height)>>,
                recv_adj |-> ext, recv_n |-> ExtendedCount,
                overflow |-> n > ExtendedCount,
                internal |-> InternalGeometry(width, height, ext, ExtendedCount) ]
      ELSE [ entry |-> entry, width |-> width, height |-> height,
             adj |-> adj, n |-> n, crop |-> FullFrame, eff |-> FullFrame,
             reported |-> <<>>,
             recv_adj |-> adj, recv_n |-> n,
             overflow |-> FALSE,
             internal |-> InternalGeometry(width, height, adj, n) ]

\* One processing call with its tone curves: geom as above, luts the
\* uploaded tables.  vk_process_image has no curve parameters: it fills
\* identity_lut and returns what vk_process_image_with_curves returns for
\* that table passed four times (lines 410-421).
RECURSIVE ProcessCall(_, _, _, _, _, _, _)
ProcessCall(entry, width, height, adj, n, crop, luts) ==
    IF entry = "vk_process_image"
      THEN LET inner == ProcessCall("vk_process_image_with_curves", width, height, adj, n,
                                    crop, <<IdentityLut, IdentityLut, IdentityLut, IdentityLut>>)
           IN [inner EXCEPT !.geom.entry = entry]
      ELSE [ geom |-> ProcessGeometry(entry, width, height, adj, n, crop),
             luts |-> UploadLuts(luts) ]

\* No call has been made.
NoGeom ==
    [ entry |-> "none", width |-> 0, height |-> 0,
      adj |-> <<>>, n |-> 0, crop |-> FullFrame, eff |-> FullFrame,
      reported |-> <<>>, recv_adj |-> <<>>, recv_n |-> 0, overflow |-> FALSE,
      internal |-> [ output_width |-> 0, output_height |-> 0,
                     input_size |-> 0, output_size |-> 0,
                     input_buffer_size |-> 0, output_buffer_size |-> 0,
                     uniform_size |-> 0, packed |-> <<>>,
                     group_count_x |-> 0, group_count_y |-> 0 ] ]

\* No call with tone curves has been made.
NoTone == [ geom |-> NoGeom, luts |-> <<>> ]

\* No buffer size has been computed.  trapped: the process was stopped at
\* an int overflow.
NoSizes == [ called |-> FALSE, entry |-> "none", width |-> 0, height |-> 0,
             trapped |-> FALSE, reported |-> <<>>, internal |-> NoGeom.internal ]

(***************************************************************************)
(* Memory types.  A type filter (memoryTypeBits) is held as the set of the *)
(* indices whose bit is set, a property mask as the set of its flags.      *)
(***************************************************************************)

\* ~0u, held as the same 32 bits read as a signed integer.
NoMemoryType == 0 - 1

\* find_memory_type over the device's memory types: the first index whose
\* bit is set in type_filter and whose flags contain properties.
RECURSIVE find_memory_type_from(_, _, _, _)
find_memory_type_from(types, type_filter, properties, i) ==
    IF i >= Len(types) THEN NoMemoryType
    ELSE IF i \in type_filter /\ (types[i + 1] \cap properties) = properties
         THEN i
         ELSE find_memory_type_from(types, type_filter, properties, i + 1)

find_memory_type(types, type_filter, properties) ==
    find_memory_type_from(types, type_filter, properties, 0)

\* What vkAllocateMemory can do with alloc_info.memoryTypeIndex = index.
\* An index below the memory type count is allocated or refused.  Any
\* other index breaks the valid usage of VkMemoryAllocateInfo, and the
\* driver's behaviour is undefined: it may refuse, read a memory type past
\* the end of its table and allocate, or stop the process.
vkAllocateMemory(types, index) ==
    IF index \in 0..(Len(types) - 1) THEN {"success", "error"}
    ELSE {"success", "error", "crash"}

\* The nine buffers of one call, in creation order of their memory.
Buffers == <<"input", "output", "uniform", "rgb_lut", "red_lut", "green_lut",
             "blue_lut", "staging_in", "staging_out">>

\* buffer_info.usage at the vkCreateBuffer call of each buffer.
BufferUsage(b) ==
    CASE b = "input"       -> {"storage", "transfer_dst"}
      [] b = "output"      -> {"storage", "transfer_src"}
      [] b = "uniform"     -> {"uniform"}
      [] b = "staging_in"  -> {"transfer_src"}
      [] b = "staging_out" -> {"transfer_dst"}
      [] OTHER             -> {"storage", "transfer_dst"}

\* The property flags each buffer's memory is meant to have.
RequiredFlags(b) ==
    IF b \in {"input", "output"} THEN {"device_local"}
    ELSE {"host_visible", "host_coherent"}

\* alloc_info.memoryTypeIndex at the vkAllocateMemory call of each buffer;
\* filter maps a usage to the memoryTypeBits of a buffer created with it.
\* alloc_info is one struct reused for all nine allocations: the index is
\* assigned for input, uniform, rgb_lut and staging_in and left as it was
\* for the others.
MemoryTypeIndices(types, filter) ==
    LET input   == find_memory_type(types, filter[BufferUsage("input")],
                                    {"device_local"})
        uniform == find_memory_type(types, filter[BufferUsage("uniform")],
                                    {"host_visible", "host_coherent"})
        rgb_lut == find_memory_type(types, filter[BufferUsage("rgb_lut")],
                                    {"host_visible", "host_coherent"})
        staging_in == find_memory_type(types, filter[BufferUsage("staging_in")],
                                       {"host_visible", "host_coherent"})
    IN [ input |-> input, output |-> input, uniform |-> uniform,
         rgb_lut |-> rgb_lut, red_lut |-> rgb_lut, green_lut |-> rgb_lut,
         blue_lut |-> rgb_lut,
         staging_in |-> staging_in, staging_out |-> staging_in ]

\* find_memory_type has not been called.  result: how the processing call
\* went on after the allocation with the index found.
NoFind == [ called |-> FALSE, types |-> <<>>, type_filter |-> {},
            properties |-> {}, index |-> 0, result |-> "none" ]

\* No call has allocated memory.
NoMem == [ called |-> FALSE, types |-> <<>>, filter |-> <<>>, index |-> <<>> ]

(***************************************************************************)
(* Verbose logging (lines 8-11, 34-50).  A run is one process: its         *)
(* environment, the logging statics, what it has written to stdout and     *)
(* stderr through VLOG and check_verbose_logging, the globals, and the     *)
(* results of its last API call.                                           *)
(***************************************************************************)

\* A process that has been started with VULKAN_VERBOSE set to env ("unset":
\* not in the environment) and has made no call.  ret, reported, dims and
\* out are the last call's return value, *output_width and *output_height
\* (crop form), the size of the output it computed, and whether
\* *output_pixels was assigned.
InitialRun(env) ==
    [ env |-> env, checked |-> 0, verbose_logging |-> 0,
      stdout |-> <<>>, stderr |-> <<>>,
      g |-> InitialContext,
      ret |-> 0 - 1, reported |-> <<>>, dims |-> <<>>, out |-> "unwritten" ]

\* Two runs that differ in VULKAN_VERBOSE only, and the number of calls
\* made in each.
InitialRuns ==
    [ quiet |-> InitialRun("unset"), verbose |-> InitialRun("1"), calls |-> 0 ]

\* check_verbose_logging: on the first call it reads the environment.
check_verbose_logging(R) ==
    IF R.checked # 0 THEN R
    ELSE LET v == IF R.env = "1" THEN 1 ELSE 0
         IN [R EXCEPT !.verbose_logging = v, !.checked = 1,
                      !.stderr = IF v # 0 THEN Append(@, "Verbose logging enabled")
                                 ELSE @]

\* A VLOG that clears the processing flag when it prints.
VLOG_ClearsProcessing(R, line) ==
    IF R.verbose_logging # 0
      THEN [R EXCEPT !.stdout = Append(@, line), !.g.processing = 0]
      ELSE R

\* VLOG(...): printf if verbose_logging.  The arguments at every call site
\* are values of variables.
VLOG(R, line) ==
    IF R.verbose_logging # 0 THEN [R EXCEPT !.stdout = Append(@, line)] ELSE R

\* VLOG for each line of a sequence, in order.
RECURSIVE VLOGs(_, _)
VLOGs(R, lines) ==
    IF lines = <<>> THEN R ELSE VLOGs(VLOG(R, Head(lines)), Tail(lines))

(***************************************************************************)
(* State.  g: the globals of the translation unit and the driver's         *)
(* accounting; crashed: the process died on undefined behaviour; per       *)
(* thread: pc (position of the thread in the call it is making), op (the   *)
(* API function it called), ret (the value that call returned, -1 while    *)
(* there is none) and loc (the locals of its call); geo: the arguments of   *)
(* the processing call whose geometry is being looked at and what the      *)
(* code computes from them.                                                *)
(***************************************************************************)
VARIABLES g, crashed, pc, op, ret, loc, geo, tone, mem, runs, siz, fnd

vars == <<g, crashed, pc, op, ret, loc, geo, tone, mem, runs, siz, fnd>>

Entries == {"vk_process_image", "vk_process_image_with_curves",
            "vk_process_image_with_curves_and_crop"}

\* Between the guard and the return of vk_process_image_internal.
InFlight(t) == pc[t] \in {ProcSteps[i] : i \in 1..Len(ProcSteps)}

Goto(t, s) == pc' = [pc EXCEPT ![t] = s]

Returns(t, v) == pc' = [pc EXCEPT ![t] = "ret"] /\ ret' = [ret EXCEPT ![t] = v]

\* Handles of step s that are passed to the driver although they are "bad".
MarkUsed(L, s) ==
    [L EXCEPT !.used = @ \cup {k \in Uses(s) \cup PostUses(s) : L.h[k] = "bad"}]

\* The step thread t is about to take has undefined behaviour: it calls into
\* a destroyed device, passes a handle that was never created, or reads
\* 256 bytes through a null LUT pointer (line 732).
UBAt(t) ==
    /\ InFlight(t)
    /\ pc[t] # "clear"
    /\ \/ g.ctx["device"] # "live"
       \/ \E k \in Uses(pc[t]) : loc[t].h[k] = "bad"
       \/ pc[t] = "upload" /\ loc[t].lutNull

(***************************************************************************)
(* vk_init and vk_cleanup as calls of a thread.                            *)
(***************************************************************************)
VkInit(t) ==
    /\ UNCHANGED <<geo, tone, mem, runs, siz, fnd>>
    /\ ~crashed /\ pc[t] = "idle"
    /\ g.live["instance"] <= MaxInstances
    /\ \E cfg \in DevConfigs, fault \in InitFaults \cup {"none"} :
         LET r == vk_init_g(g, cfg, fault)
         IN /\ g' = r.g
            /\ Returns(t, r.ret)
            /\ crashed' \in (IF r.ub THEN BOOLEAN ELSE {FALSE})
            /\ loc' = [loc EXCEPT ![t] =
                         IF g.initialized = 0 /\ fault # "instance"
                           THEN [NoLocals EXCEPT !.enumerated = TRUE,
                                                 !.devices = cfg]
                           ELSE NoLocals]
    /\ op' = [op EXCEPT ![t] = "vk_init"]

VkCleanup(t) ==
    /\ UNCHANGED <<geo, tone, mem, runs, siz, fnd>>
    /\ ~crashed /\ pc[t] = "idle"
    /\ g' = vk_cleanup_g(g)
    /\ Returns(t, -1)
    /\ op' = [op EXCEPT ![t] = "vk_cleanup"]
    /\ loc' = [loc EXCEPT ![t] =
                 [NoLocals EXCEPT !.destroys = IF g' = g THEN <<>> ELSE g'.log]]
    /\ UNCHANGED crashed

\* vk_is_available; failedAt records a failed vkCreateInstance.
VkIsAvailable(t) ==
    /\ UNCHANGED <<geo, tone, mem, runs, siz, fnd>>
    /\ ~crashed /\ pc[t] = "idle"
    /\ \E ok \in BOOLEAN :
         LET r == vk_is_available_g(g, ok)
         IN /\ g' = r.g
            /\ Returns(t, r.ret)
            /\ loc' = [loc EXCEPT ![t] =
                         [NoLocals EXCEPT !.failedAt = IF ok THEN "none" ELSE "instance"]]
    /\ op' = [op EXCEPT ![t] = "vk_is_available"]
    /\ UNCHANGED crashed

(***************************************************************************)
(* The processing entry points (lines 401-422, 1017-1120).                 *)
(***************************************************************************)
\* vk_process_image passes its own identity LUT; the other two take the
\* caller's LUT pointers.  The crop form returns 0 when its malloc of the
\* extended adjustment array fails (lines 1087-1091).
Call(t) ==
    /\ UNCHANGED <<geo, tone, mem, runs, siz, fnd>>
    /\ ~crashed /\ pc[t] = "idle"
    /\ g.leaked <= MaxLeaked
    /\ \E e \in Entries, lutNull \in BOOLEAN, mallocOk \in BOOLEAN :
         /\ e = "vk_process_image" => ~lutNull
         /\ e # "vk_process_image_with_curves_and_crop" => mallocOk
         /\ op' = [op EXCEPT ![t] = e]
         /\ loc' = [loc EXCEPT ![t] = [NoLocals EXCEPT !.lutNull = lutNull]]
         /\ IF mallocOk
              THEN Goto(t, "check_init") /\ ret' = [ret EXCEPT ![t] = -1]
              ELSE Returns(t, 0)
    /\ UNCHANGED <<g, crashed>>

\* An entry that takes the processing flag before it tests initialized.
CheckInitialized_SetsFlagFirst(t) ==
    /\ UNCHANGED <<geo, tone, mem, runs, siz, fnd>>
    /\ ~crashed /\ pc[t] = "check_init"
    /\ g' = [g EXCEPT !.processing = 1]
    /\ IF g.initialized = 0
         THEN Returns(t, 0)
         ELSE Goto(t, "guard_read") /\ UNCHANGED ret
    /\ UNCHANGED <<crashed, op, loc>>

\* Lines 439-442.
CheckInitialized(t) ==
    /\ UNCHANGED <<geo, tone, mem, runs, siz, fnd>>
    /\ ~crashed /\ pc[t] = "check_init"
    /\ IF g.initialized = 0
         THEN Returns(t, 0)
         ELSE Goto(t, "guard_read") /\ UNCHANGED ret
    /\ UNCHANGED <<g, crashed, op, loc>>

\* A guard that clears the flag when it rejects a call.
GuardRead_ClearsFlag(t) ==
    /\ UNCHANGED <<geo, tone, mem, runs, siz, fnd>>
    /\ ~crashed /\ pc[t] = "guard_read"
    /\ IF g.processing # 0
         THEN Returns(t, 0) /\ g' = [g EXCEPT !.processing = 0]
         ELSE Goto(t, "guard_set") /\ UNCHANGED <<g, ret>>
    /\ UNCHANGED <<crashed, op, loc>>

\* Line 445: the read of the processing flag.
GuardRead(t) ==
    /\ UNCHANGED <<geo, tone, mem, runs, siz, fnd>>
    /\ ~crashed /\ pc[t] = "guard_read"
    /\ IF g.processing # 0
         THEN Returns(t, 0)
         ELSE Goto(t, "guard_set") /\ UNCHANGED ret
    /\ UNCHANGED <<g, crashed, op, loc>>

\* Line 449: the write of the processing flag.
GuardSet(t) ==
    /\ UNCHANGED <<geo, tone, mem, runs, siz, fnd>>
    /\ ~crashed /\ pc[t] = "guard_set"
    /\ g' = [g EXCEPT !.processing = 1]
    /\ Goto(t, ProcSteps[1])
    /\ UNCHANGED <<crashed, op, ret, loc>>

\* A failure branch of vkBeginCommandBuffer that hands the caller a host
\* buffer before it returns 0.
FailureBranch_AssignsOutput(G, L, s) ==
    [ g |-> IF ClearsGuard(s) THEN [G EXCEPT !.processing = 0] ELSE G,
      loc |-> [ReleaseAll(L, UnwindAt(s)) EXCEPT
                 !.failedAt = s, !.faults = @ + 1,
                 !.out = IF s = "begin" THEN "written" ELSE @] ]

\* The failure branch of the checked call s: what it releases and whether
\* it clears the guard.  No branch assigns *output_pixels.
FailureBranch(G, L, s) ==
    [ g |-> IF ClearsGuard(s) THEN [G EXCEPT !.processing = 0] ELSE G,
      loc |-> [ReleaseAll(L, UnwindAt(s)) EXCEPT !.failedAt = s, !.faults = @ + 1] ]

\* vkCreateBuffer / vkAllocateMemory with a checked result (lines 508-727).
CreateChecked(t) ==
    /\ UNCHANGED <<geo, tone, mem, runs, siz, fnd>>
    /\ ~crashed /\ pc[t] \in {CheckedCreates[i] : i \in 1..Len(CheckedCreates)}
    /\ \E ok \in BOOLEAN :
         IF ok
           THEN /\ loc' = [loc EXCEPT ![t].h[pc[t]] = "live"]
                /\ Goto(t, NextStep(pc[t]))
                /\ UNCHANGED <<g, ret>>
           ELSE /\ loc[t].faults < MaxFaults
                /\ LET f == FailureBranch(g, loc[t], pc[t])
                   IN g' = f.g /\ loc' = [loc EXCEPT ![t] = f.loc]
                /\ Returns(t, 0)
    /\ UNCHANGED <<crashed, op>>

\* Lines 729-776: the four LUT copies and the uniform block.
Upload(t) ==
    /\ UNCHANGED <<geo, tone, mem, runs, siz, fnd>>
    /\ ~crashed /\ pc[t] = "upload"
    /\ ~loc[t].lutNull
    /\ Goto(t, NextStep(pc[t]))
    /\ UNCHANGED <<g, crashed, op, ret, loc>>

\* Lines 785-813: the staging buffers and their memory; no result is read.
CreateUnchecked(t) ==
    /\ UNCHANGED <<geo, tone, mem, runs, siz, fnd>>
    /\ ~crashed /\ pc[t] \in StagingKinds
    /\ \E ok \in BOOLEAN :
         /\ ~ok => loc[t].faults < MaxFaults
         /\ loc' = [loc EXCEPT ![t] =
                      MarkUsed([@ EXCEPT !.h[pc[t]] = IF ok THEN "live" ELSE "bad",
                                         !.faults = IF ok THEN @ ELSE @ + 1],
                               pc[t])]
    /\ Goto(t, NextStep(pc[t]))
    /\ UNCHANGED <<g, crashed, op, ret>>

\* Line 824: vkAllocateDescriptorSets; the pool holds at most MaxSets sets.
AllocateDescriptorSet(t) ==
    /\ UNCHANGED <<geo, tone, mem, runs, siz, fnd>>
    /\ ~crashed /\ pc[t] = "descriptor_set"
    /\ \E ok \in BOOLEAN :
         /\ ok => g.sets < MaxSets
         /\ ~ok => (loc[t].faults < MaxFaults \/ g.sets >= MaxSets)
         /\ g' = [g EXCEPT !.sets = IF ok THEN @ + 1 ELSE @]
         /\ loc' = [loc EXCEPT ![t].h["descriptor_set"] = IF ok THEN "live" ELSE "bad",
                               ![t].faults = IF ok \/ g.sets >= MaxSets THEN @ ELSE @ + 1]
    /\ Goto(t, NextStep(pc[t]))
    /\ UNCHANGED <<crashed, op, ret>>

\* Lines 797-799 and 826-896: steps that only use handles.
UseHandles(t) ==
    /\ UNCHANGED <<geo, tone, mem, runs, siz, fnd>>
    /\ ~crashed /\ pc[t] \in {"upload_input", "update_descriptors"}
    /\ loc' = [loc EXCEPT ![t] = MarkUsed(@, pc[t])]
    /\ Goto(t, NextStep(pc[t]))
    /\ UNCHANGED <<g, crashed, op, ret>>

\* Lines 906-920: vkBeginCommandBuffer and its failure branch.
BeginCommandBuffer(t) ==
    /\ UNCHANGED <<geo, tone, mem, runs, siz, fnd>>
    /\ ~crashed /\ pc[t] = "begin"
    /\ \E ok \in BOOLEAN :
         IF ok
           THEN /\ g' = [g EXCEPT !.cmd = "recording", !.recorded = <<>>]
                /\ loc' = [loc EXCEPT ![t].calls = Append(@, "begin")]
                /\ Goto(t, NextStep(pc[t]))
                /\ UNCHANGED ret
           ELSE /\ loc[t].faults < MaxFaults
                /\ LET f == FailureBranch(g, [loc[t] EXCEPT !.calls = Append(@, "begin")],
                                          "begin")
                   IN g' = f.g /\ loc' = [loc EXCEPT ![t] = f.loc]
                /\ Returns(t, 0)
    /\ UNCHANGED <<crashed, op>>

\* Lines 924-961: the commands go into the shared command buffer if it is
\* in the recording state.
RecordCommands(t) ==
    /\ UNCHANGED <<geo, tone, mem, runs, siz, fnd>>
    /\ ~crashed /\ pc[t] = "record"
    /\ g' = [g EXCEPT !.recorded = IF g.cmd = "recording"
                                     THEN @ \o RecordedCommands ELSE @]
    /\ loc' = [loc EXCEPT ![t] = MarkUsed(@, pc[t])]
    /\ Goto(t, NextStep(pc[t]))
    /\ UNCHANGED <<crashed, op, ret>>

\* The state of the command buffer after vkEndCommandBuffer, vkQueueSubmit
\* and vkQueueWaitIdle (lines 963-973).  The buffer is recorded with
\* ONE_TIME_SUBMIT, so it is invalid once it has executed.
CmdAfter(s, ok, cmd) ==
    CASE s = "end" -> IF ok THEN "executable" ELSE "invalid"
      [] s = "submit" -> IF ok /\ cmd = "executable" THEN "pending" ELSE cmd
      [] s = "wait" -> IF ok /\ cmd = "pending" THEN "invalid" ELSE cmd

\* Lines 963-973: none of the three results is read.
Execute(t) ==
    /\ UNCHANGED <<geo, tone, mem, runs, siz, fnd>>
    /\ ~crashed /\ pc[t] \in {"end", "submit", "wait"}
    /\ \E ok \in BOOLEAN :
         /\ ~ok => loc[t].faults < MaxFaults
         /\ g' = [g EXCEPT !.cmd = CmdAfter(pc[t], ok, @)]
         /\ loc' = [loc EXCEPT ![t].execFail = IF ok THEN @ ELSE @ \cup {pc[t]},
                               ![t].faults = IF ok THEN @ ELSE @ + 1,
                               ![t].calls = Append(@, pc[t])]
    /\ Goto(t, NextStep(pc[t]))
    /\ UNCHANGED <<crashed, op, ret>>

\* Lines 975-980: the host buffer is allocated and filled from staging_out.
Download(t) ==
    /\ UNCHANGED <<geo, tone, mem, runs, siz, fnd>>
    /\ ~crashed /\ pc[t] = "download"
    /\ loc' = [loc EXCEPT ![t] = [MarkUsed(@, "download") EXCEPT
                                    !.out = "written",
                                    !.calls = Append(@, "map_output")]]
    /\ Goto(t, NextStep(pc[t]))
    /\ UNCHANGED <<g, crashed, op, ret>>

\* Lines 982-1004.
Release(t) ==
    /\ UNCHANGED <<geo, tone, mem, runs, siz, fnd>>
    /\ ~crashed /\ pc[t] = "release"
    /\ loc' = [loc EXCEPT ![t] = ReleaseAll(@, SuccessRelease(@.lutNull))]
    /\ Goto(t, NextStep(pc[t]))
    /\ UNCHANGED <<g, crashed, op, ret>>

\* Line 1007.
FreeDescriptorSet(t) ==
    /\ UNCHANGED <<geo, tone, mem, runs, siz, fnd>>
    /\ ~crashed /\ pc[t] = "free_set"
    /\ g' = [g EXCEPT !.sets = IF loc[t].h["descriptor_set"] = "live" /\ @ > 0
                                 THEN @ - 1 ELSE @]
    /\ loc' = [loc EXCEPT ![t] = ReleaseAll(@, <<"descriptor_set">>)]
    /\ Goto(t, NextStep(pc[t]))
    /\ UNCHANGED <<crashed, op, ret>>

\* Line 1009.
ResetCommandBuffer(t) ==
    /\ UNCHANGED <<geo, tone, mem, runs, siz, fnd>>
    /\ ~crashed /\ pc[t] = "reset"
    /\ g' = [g EXCEPT !.cmd = IF @ = "none" THEN @ ELSE "initial",
                      !.recorded = <<>>]
    /\ Goto(t, NextStep(pc[t]))
    /\ UNCHANGED <<crashed, op, ret, loc>>

\* Lines 1011-1013.
ClearProcessing(t) ==
    /\ UNCHANGED <<geo, tone, mem, runs, siz, fnd>>
    /\ ~crashed /\ pc[t] = "clear"
    /\ g' = [g EXCEPT !.processing = 0]
    /\ Returns(t, 1)
    /\ UNCHANGED <<crashed, op, loc>>

\* The call has returned to its caller: its locals are gone, and the
\* buffers and memory objects it left live stay live in the driver.
Return(t) ==
    /\ UNCHANGED <<geo, tone, mem, runs, siz, fnd>>
    /\ ~crashed /\ pc[t] = "ret"
    /\ g' = [g EXCEPT !.leaked = @ + Cardinality(LiveBuffers(loc[t]))]
    /\ loc' = [loc EXCEPT ![t] = NoLocals]
    /\ Goto(t, "idle")
    /\ op' = [op EXCEPT ![t] = "none"]
    /\ ret' = [ret EXCEPT ![t] = -1]
    /\ UNCHANGED crashed

\* Undefined behaviour kills the process.
Crash(t) ==
    /\ UNCHANGED <<geo, tone, mem, runs, siz, fnd>>
    /\ ~crashed /\ UBAt(t)
    /\ crashed' = TRUE
    /\ UNCHANGED <<g, pc, op, ret, loc>>

Step(t) ==
    \/ VkInit(t) \/ VkCleanup(t) \/ VkIsAvailable(t) \/ Call(t)
    \/ CheckInitialized(t) \/ GuardRead(t) \/ GuardSet(t)
    \/ CreateChecked(t) \/ Upload(t) \/ CreateUnchecked(t)
    \/ AllocateDescriptorSet(t) \/ UseHandles(t) \/ BeginCommandBuffer(t)
    \/ RecordCommands(t) \/ Execute(t) \/ Download(t) \/ Release(t) \/ FreeDescriptorSet(t)
    \/ ResetCommandBuffer(t) \/ ClearProcessing(t) \/ Return(t) \/ Crash(t)

Next == \E t \in Threads : Step(t)

\* One caller: the API is used from a single thread, as the header assumes.
Init ==
    /\ g = InitialContext
    /\ crashed = FALSE
    /\ pc = [t \in Threads |-> IF t = "A" THEN "idle" ELSE "off"]
    /\ op = [t \in Threads |-> "none"]
    /\ ret = [t \in Threads |-> -1]
    /\ loc = [t \in Threads |-> NoLocals]
    /\ geo = NoGeom
    /\ tone = NoTone
    /\ mem = NoMem
    /\ runs = InitialRuns
    /\ siz = NoSizes
    /\ fnd = NoFind

Spec == Init /\ [][Next]_vars

\* Two threads calling the API without external synchronisation, on a
\* context that one successful vk_init has set up.  Each thread makes
\* processing calls through vk_process_image or calls vk_cleanup.
InitMT ==
    /\ g = vk_init_g(InitialContext, << <<TRUE>> >>, "none").g
    /\ crashed = FALSE
    /\ pc = [t \in Threads |-> "idle"]
    /\ op = [t \in Threads |-> "none"]
    /\ ret = [t \in Threads |-> -1]
    /\ loc = [t \in Threads |-> NoLocals]
    /\ geo = NoGeom
    /\ tone = NoTone
    /\ mem = NoMem
    /\ runs = InitialRuns
    /\ siz = NoSizes
    /\ fnd = NoFind

CallMT(t) == Call(t) /\ op'[t] = "vk_process_image"

StepMT(t) ==
    \/ VkCleanup(t) \/ CallMT(t)
    \/ CheckInitialized(t) \/ GuardRead(t) \/ GuardSet(t)
    \/ CreateChecked(t) \/ Upload(t) \/ CreateUnchecked(t)
    \/ AllocateDescriptorSet(t) \/ UseHandles(t) \/ BeginCommandBuffer(t)
    \/ RecordCommands(t) \/ Execute(t) \/ Download(t) \/ Release(t) \/ FreeDescriptorSet(t)
    \/ ResetCommandBuffer(t) \/ ClearProcessing(t) \/ Return(t) \/ Crash(t)

NextMT == \E t \in Threads : StepMT(t)

SpecMT == InitMT /\ [][NextMT]_vars

(***************************************************************************)
(* The geometry of one processing call at a time: the arguments are drawn  *)
(* and handed to the entry point, then the call returns.                   *)
(***************************************************************************)
Dims == 1..MaxDim

\* Crop coordinates from one grid step below 0 to one above 1.
Coords == (0 - 1)..(Grid + 1)

Rects == [left : Coords, top : Coords, right : Coords, bottom : Coords]

\* Rectangles a caller may leave in adjustments[14..17]: the full frame,
\* the top-left part, an inner part, and an inverted one.
SlotRects ==
    { FullFrame,
      [left |-> 0, top |-> 0, right |-> Grid \div 2, bottom |-> Grid \div 2],
      [left |-> 1, top |-> 1, right |-> Grid - 1, bottom |-> Grid - 1],
      [left |-> Grid, top |-> Grid, right |-> 0, bottom |-> 0] }

\* A caller's vector of n floats: the value i + 1 at index i, and the
\* rectangle slot at the indices 14-17 that the vector reaches.
Adjustments(n, slot) ==
    [i \in 1..n |->
       CASE i = 15 -> slot.left
         [] i = 16 -> slot.top
         [] i = 17 -> slot.right
         [] i = 18 -> slot.bottom
         [] OTHER -> Q(i)]

WideDims == 1..MaxWide

\* One call with the given arguments; the caller's vector is built from n
\* and slot.
GeomStep(entry, width, height, n, slot, crop) ==
    geo' = ProcessGeometry(entry, width, height, Adjustments(n, slot), n, crop)

\* The calls explored: the crop form with the fourteen base adjustments and
\* every rectangle of the grid; every entry point with every count 0..20
\* and the rectangles of SlotRects, as argument and in the vector; and, for
\* the dispatch, every entry point on images up to MaxWide x MaxWide with
\* the same rectangle of SlotRects as argument and in a vector of 18.
GeomCall ==
    /\ geo.entry = "none"
    /\ \/ \E c \in Rects, w \in Dims, h \in Dims :
            GeomStep("vk_process_image_with_curves_and_crop", w, h,
                     BaseCount, FullFrame, c)
       \/ \E e \in Entries, n \in 0..PackedCount, slot \in SlotRects,
             c \in SlotRects, w \in Dims, h \in Dims :
            GeomStep(e, w, h, n, slot, c)
       \/ \E e \in Entries, r \in SlotRects, w \in WideDims, h \in WideDims :
            GeomStep(e, w, h, ExtendedCount, r, r)
    /\ UNCHANGED <<g, crashed, pc, op, ret, loc, tone, mem, runs, siz, fnd>>

GeomReturn ==
    /\ geo.entry # "none"
    /\ geo' = NoGeom
    /\ UNCHANGED <<g, crashed, pc, op, ret, loc, tone, mem, runs, siz, fnd>>

NextGeom == GeomCall \/ GeomReturn

SpecGeom == Init /\ [][NextGeom]_vars

(***************************************************************************)
(* The tone curves of one call.  The caller's four tables are chosen       *)
(* independently of each other.                                            *)
(***************************************************************************)

\* Tone curves a caller may pass: the identity, written out without the
\* loop of vk_process_image, and the negative.
PlainLut == [i \in 0..(LutSize - 1) |-> i]
NegativeLut == [i \in 0..(LutSize - 1) |-> (LutSize - 1) - i]

\* One call of any entry point on an image up to MaxDim x MaxDim with a
\* vector of 0..20 adjustments; the crop form is called with the full
\* frame.
ToneCall ==
    /\ tone.geom.entry = "none"
    /\ \E e \in Entries, n \in 0..PackedCount, w \in Dims, h \in Dims,
          luts \in [1..4 -> {PlainLut, NegativeLut}] :
         tone' = ProcessCall(e, w, h, Adjustments(n, FullFrame), n, FullFrame, luts)
    /\ UNCHANGED <<g, crashed, pc, op, ret, loc, geo, mem, runs, siz, fnd>>

ToneReturn ==
    /\ tone.geom.entry # "none"
    /\ tone' = NoTone
    /\ UNCHANGED <<g, crashed, pc, op, ret, loc, geo, mem, runs, siz, fnd>>

NextTone == ToneCall \/ ToneReturn

SpecTone == Init /\ [][NextTone]_vars

(***************************************************************************)
(* The buffer sizes of one call (lines 481-490) for small and for very     *)
(* large images.  width * height and output_width * output_height are int  *)
(* products; one that does not fit is undefined: the build either wraps it *)
(* or traps.                                                               *)
(***************************************************************************)

SizeDims == Dims \cup {HugeDim}

\* The sizes of one call with its undefined int products resolved: trap
\* tells whether the build traps.  reported holds *output_width and
\* *output_height of the crop form.
SizesOf(entry, w, h, n, slot, trap) ==
    LET pg == ProcessGeometry(entry, w, h, Adjustments(n, slot), n, slot)
    IN [ called |-> TRUE, entry |-> entry, width |-> w, height |-> h,
         trapped |-> trap, reported |-> pg.reported,
         internal |-> IF trap THEN NoGeom.internal ELSE pg.internal ]

\* A processing call computes its sizes: for an image up to
\* MaxDim x MaxDim with a vector of 0..20 adjustments, and for an image
\* with a side of HugeDim pixels with a vector of 14 and the full frame.
SizeCall ==
    /\ ~siz.called
    /\ \/ \E e \in Entries, w \in Dims, h \in Dims, n \in 0..PackedCount,
             slot \in SlotRects :
            siz' = SizesOf(e, w, h, n, slot, FALSE)
       \/ \E e \in Entries, w \in SizeDims, h \in SizeDims, trap \in BOOLEAN :
            /\ trap => IntMulOverflows(w, h)
            /\ siz' = SizesOf(e, w, h, BaseCount, FullFrame, trap)
    /\ UNCHANGED <<g, crashed, pc, op, ret, loc, geo, tone, mem, runs, fnd>>

SizeReturn ==
    /\ siz.called
    /\ siz' = NoSizes
    /\ UNCHANGED <<g, crashed, pc, op, ret, loc, geo, tone, mem, runs, fnd>>

NextSize == SizeCall \/ SizeReturn

SpecSize == Init /\ [][NextSize]_vars

(***************************************************************************)
(* The memory types of one call.  The device and the driver choose the     *)
(* memory types and each buffer's type filter.                             *)
(***************************************************************************)

\* Memory type tables of three devices: a discrete one, an integrated one
\* with a single type, and one that also offers device-local memory the
\* host can map.
MemoryTypeTables ==
    { << {"device_local"}, {"host_visible", "host_coherent"} >>,
      << {"device_local", "host_visible", "host_coherent"} >>,
      << {"device_local"},
         {"device_local", "host_visible", "host_coherent"},
         {"host_visible", "host_coherent", "host_cached"} >> }

\* The usages of the nine buffers.
Usages == { BufferUsage(Buffers[k]) : k \in 1..Len(Buffers) }

\* What vkGetBufferMemoryRequirements may report for a buffer: a filter
\* that holds a device-local type and a host-visible, host-coherent type.
\* Buffers created with the same usage get the same filter.
TypeFilters(types) ==
    { f \in SUBSET (0..(Len(types) - 1)) :
        /\ \E i \in f : "device_local" \in types[i + 1]
        /\ \E i \in f : {"host_visible", "host_coherent"} \subseteq types[i + 1] }

\* One processing call allocates the memory of its nine buffers.
MemCall ==
    /\ ~mem.called
    /\ \E types \in MemoryTypeTables :
         \E filter \in [Usages -> TypeFilters(types)] :
           mem' = [ called |-> TRUE, types |-> types, filter |-> filter,
                    index |-> MemoryTypeIndices(types, filter) ]
    /\ UNCHANGED <<g, crashed, pc, op, ret, loc, geo, tone, runs, siz, fnd>>

MemReturn ==
    /\ mem.called
    /\ mem' = NoMem
    /\ UNCHANGED <<g, crashed, pc, op, ret, loc, geo, tone, runs, siz, fnd>>

NextMem == MemCall \/ MemReturn

SpecMem == Init /\ [][NextMem]_vars

(***************************************************************************)
(* find_memory_type on any device, filter and property mask, and the       *)
(* allocation that uses its result.                                        *)
(***************************************************************************)

\* The property flags of a memory type.
MemoryFlags == {"device_local", "host_visible", "host_coherent"}

\* Every memory type table of at most MaxTypes types.  A device has at
\* least one memory type.
AllTypeTables ==
    UNION { [1..k -> SUBSET MemoryFlags] : k \in 1..MaxTypes }

\* The property masks the processing call asks for.
RequestedProperties ==
    { RequiredFlags(Buffers[k]) : k \in 1..Len(Buffers) }

\* The initializer of alloc_info calls find_memory_type.  The filter may
\* have bits at or above the memory type count.
FindCall ==
    /\ ~fnd.called
    /\ \E types \in AllTypeTables, type_filter \in SUBSET (0..(MaxTypes - 1)),
          properties \in RequestedProperties :
         fnd' = [ called |-> TRUE, types |-> types,
                  type_filter |-> type_filter, properties |-> properties,
                  index |-> find_memory_type(types, type_filter, properties),
                  result |-> "pending" ]
    /\ UNCHANGED <<g, crashed, pc, op, ret, loc, geo, tone, mem, runs, siz>>

\* vkAllocateMemory with the index, and the check of its result: the call
\* returns 0 on an error and goes on otherwise.
FindAllocate ==
    /\ fnd.called /\ fnd.result = "pending"
    /\ \E r \in vkAllocateMemory(fnd.types, fnd.index) :
         fnd' = [fnd EXCEPT !.result = CASE r = "error" -> "failed"
                                         [] r = "crash" -> "crashed"
                                         [] OTHER       -> "continued"]
    /\ UNCHANGED <<g, crashed, pc, op, ret, loc, geo, tone, mem, runs, siz>>

FindReturn ==
    /\ fnd.called /\ fnd.result # "pending"
    /\ fnd' = NoFind
    /\ UNCHANGED <<g, crashed, pc, op, ret, loc, geo, tone, mem, runs, siz>>

NextFind == FindCall \/ FindAllocate \/ FindReturn

SpecFind == Init /\ [][NextFind]_vars

(***************************************************************************)
(* Two runs of one sequence of API calls, one with VULKAN_VERBOSE unset    *)
(* and one with VULKAN_VERBOSE=1.  Each call is made in both runs with     *)
(* the same arguments, and the driver and the file system answer it the    *)
(* same way in both.  The calls of a run are made one after the other.     *)
(* The VLOG lines of a call are appended to stdout in the order in which   *)
(* the call writes them.                                                   *)
(***************************************************************************)

InitStepIndex(s) == CHOOSE i \in 1..Len(InitSteps) : InitSteps[i] = s

\* vk_init got as far as opening the shader file (line 283) and found it.
ShaderFound(G, cfg, fault) ==
    /\ G.initialized = 0
    /\ Len(cfg) > 0
    /\ PickDevice(cfg, 1, G.physical_device, G.queue_family_index).pd.idx # 0
    /\ fault = "none" \/ InitStepIndex(fault) > InitStepIndex("shader_file")

\* vk_init in a run (lines 76-376).
vk_init_run(R, cfg, fault) ==
    LET R1 == check_verbose_logging(R)
        r  == vk_init_g(R1.g, cfg, fault)
        R2 == IF ShaderFound(R1.g, cfg, fault) THEN VLOG(R1, "Found shader at") ELSE R1
        R3 == [R2 EXCEPT !.g = r.g, !.ret = r.ret,
                         !.reported = <<>>, !.dims = <<>>, !.out = "unwritten"]
    IN IF R1.g.initialized = 0 /\ r.ret = 1
         THEN VLOG(R3, "Vulkan initialized successfully")
         ELSE R3

\* vk_cleanup in a run (lines 1126-1164): it logs nothing.
vk_cleanup_run(R) ==
    [R EXCEPT !.g = vk_cleanup_g(@), !.ret = 0 - 1,
              !.reported = <<>>, !.dims = <<>>, !.out = "unwritten"]

\* vk_is_available in a run (lines 378-399): it logs nothing and does not
\* call check_verbose_logging.
vk_is_available_run(R, ok) ==
    LET r == vk_is_available_g(R.g, ok)
    IN [R EXCEPT !.g = r.g, !.ret = r.ret,
                 !.reported = <<>>, !.dims = <<>>, !.out = "unwritten"]

\* The VLOG lines written once step s has succeeded (lines 511, 747, 772,
\* 898, 922, 1012).
VlogAfter(s) ==
    CASE s = "input_buffer" -> <<"Input buffer created">>
      [] s = "upload" -> <<"Tone curve LUTs uploaded", "Params">>
      [] s = "update_descriptors" -> <<"Recording command buffer...">>
      [] s = "begin" -> <<"Command buffer recording started">>
      [] s = "clear" -> <<"Complete">>
      [] OTHER -> <<>>

\* Step s of a processing call when every driver call of it succeeds: the
\* globals and the locals after it.
StepOk(G, L, s) ==
    CASE s \in BufferKinds ->
           [ g |-> G, loc |-> [L EXCEPT !.h[s] = "live"] ]
      [] s = "descriptor_set" ->
           [ g |-> [G EXCEPT !.sets = @ + 1],
             loc |-> [L EXCEPT !.h["descriptor_set"] = "live"] ]
      [] s = "begin" ->
           [ g |-> [G EXCEPT !.cmd = "recording", !.recorded = <<>>],
             loc |-> [L EXCEPT !.calls = Append(@, "begin")] ]
      [] s = "record" ->
           [ g |-> [G EXCEPT !.recorded = IF G.cmd = "recording"
                                            THEN @ \o RecordedCommands ELSE @],
             loc |-> L ]
      [] s \in {"end", "submit", "wait"} ->
           [ g |-> [G EXCEPT !.cmd = CmdAfter(s, TRUE, @)],
             loc |-> [L EXCEPT !.calls = Append(@, s)] ]
      [] s = "download" ->
           [ g |-> G,
             loc |-> [L EXCEPT !.out = "written", !.calls = Append(@, "map_output")] ]
      [] s = "release" ->
           [ g |-> G, loc |-> ReleaseAll(L, SuccessRelease(L.lutNull)) ]
      [] s = "free_set" ->
           [ g |-> [G EXCEPT !.sets = IF L.h["descriptor_set"] = "live" /\ @ > 0
                                        THEN @ - 1 ELSE @],
             loc |-> ReleaseAll(L, <<"descriptor_set">>) ]
      [] s = "reset" ->
           [ g |-> [G EXCEPT !.cmd = IF @ = "none" THEN @ ELSE "initial",
                             !.recorded = <<>>],
             loc |-> L ]
      [] s = "clear" ->
           [ g |-> [G EXCEPT !.processing = 0], loc |-> L ]
      [] OTHER -> [ g |-> G, loc |-> L ]

\* What the call leaves behind when it returns v with the locals L.
RunReturn(R, L, v) ==
    [R EXCEPT !.g.leaked = @ + Cardinality(LiveBuffers(L)),
              !.ret = v, !.out = L.out]

\* vk_process_image_internal from step i of ProcSteps on (lines 498-1013);
\* fault is the checked call that fails ("none": no call does).
RECURSIVE ProcFrom(_, _, _, _)
ProcFrom(R, L, i, fault) ==
    IF i > Len(ProcSteps) THEN RunReturn(R, L, 1)
    ELSE LET s == ProcSteps[i] IN
      IF s = fault
        THEN LET f == FailureBranch(R.g, L, s)
             IN RunReturn([R EXCEPT !.g = f.g], f.loc, 0)
        ELSE LET n == StepOk(R.g, L, s)
             IN ProcFrom(VLOGs([R EXCEPT !.g = n.g], VlogAfter(s)), n.loc, i + 1, fault)

\* A processing call in a run: the entry point's own work (lines 401-422,
\* 1017-1120) and vk_process_image_internal up to its first creation
\* call (lines 437-498).
vk_process_run(R, entry, width, height, n, crop, fault) ==
    LET geom == ProcessGeometry(entry, width, height, Adjustments(n, crop), n, crop)
        R0 == [R EXCEPT !.reported = geom.reported, !.dims = <<>>,
                        !.out = "unwritten", !.ret = 0]
        R1 == check_verbose_logging(R0)
    IN IF R1.g.initialized = 0 THEN R1
       ELSE IF R1.g.processing # 0
         THEN VLOG(R1, "Already processing, skipping")
       ELSE LET R2 == [R1 EXCEPT !.g.processing = 1]
                R3 == VLOG(R2, "Processing image")
                R4 == [R3 EXCEPT !.dims = << geom.internal.output_width,
                                             geom.internal.output_height >>]
                R5 == IF geom.recv_n >= ExtendedCount
                        THEN VLOG(R4, "Cropping to") ELSE R4
            IN ProcFrom(VLOG(R5, "Creating buffers..."), NoLocals, 1, fault)

\* The checked calls of a processing call.
RunFaults == {"none", "begin"} \cup {CheckedCreates[i] : i \in 1..Len(CheckedCreates)}

\* The two runs after one more call.
Both(q, v) == [ quiet |-> q, verbose |-> v, calls |-> runs.calls + 1 ]

\* vk_init; calls that hand a stale physical device to vkCreateDevice are
\* left out.
RunInit ==
    /\ runs.calls < MaxCalls
    /\ \E cfg \in DevConfigs, fault \in InitFaults \cup {"none"} :
         /\ ~vk_init_g(runs.quiet.g, cfg, fault).ub
         /\ ~vk_init_g(runs.verbose.g, cfg, fault).ub
         /\ runs' = Both(vk_init_run(runs.quiet, cfg, fault),
                         vk_init_run(runs.verbose, cfg, fault))
    /\ UNCHANGED <<g, crashed, pc, op, ret, loc, geo, tone, mem, siz, fnd>>

RunCleanup ==
    /\ runs.calls < MaxCalls
    /\ runs' = Both(vk_cleanup_run(runs.quiet), vk_cleanup_run(runs.verbose))
    /\ UNCHANGED <<g, crashed, pc, op, ret, loc, geo, tone, mem, siz, fnd>>

RunIsAvailable ==
    /\ runs.calls < MaxCalls
    /\ \E ok \in BOOLEAN :
         runs' = Both(vk_is_available_run(runs.quiet, ok),
                      vk_is_available_run(runs.verbose, ok))
    /\ UNCHANGED <<g, crashed, pc, op, ret, loc, geo, tone, mem, siz, fnd>>

\* The crop rectangle of the processing calls: one grid step in from each
\* edge.
InnerRect == [left |-> 1, top |-> 1, right |-> Grid - 1, bottom |-> Grid - 1]

\* A processing call on an image of MaxDim x MaxDim pixels with 14 or 18
\* adjustments.
RunProcess ==
    /\ runs.calls < MaxCalls
    /\ \E e \in Entries, n \in {BaseCount, ExtendedCount}, fault \in RunFaults :
         runs' = Both(vk_process_run(runs.quiet, e, MaxDim, MaxDim, n, InnerRect, fault),
                      vk_process_run(runs.verbose, e, MaxDim, MaxDim, n, InnerRect, fault))
    /\ UNCHANGED <<g, crashed, pc, op, ret, loc, geo, tone, mem, siz, fnd>>

NextVerbose == RunInit \/ RunCleanup \/ RunIsAvailable \/ RunProcess

SpecVerbose == Init /\ [][NextVerbose]_vars


(***************************************************************************)
(* Properties.                                                             *)
(***************************************************************************)
IsProcessing(t) == op[t] \in Entries

\* The call of thread t has returned and had passed the reentrancy guard.
ReturnedPastGuard(t) ==
    /\ pc[t] = "ret" /\ IsProcessing(t)
    /\ (ret[t] = 1 \/ loc[t].failedAt # "none")

\* C1: whenever a processing call that passed the reentrancy guard returns,
\* with success or with failure at a GPU call, the processing flag is 0.
C1_GuardClearedOnReturn ==
    \A t \in Threads : ReturnedPastGuard(t) => g.processing = 0

\* C2: with the read and the write of the processing flag as separate
\* steps, at most one thread is between the guard and its return.
C2_AtMostOneInFlight ==
    Cardinality({t \in Threads : InFlight(t)}) <= 1

\* A driver failure was injected at a buffer or memory creation point or at
\* vkBeginCommandBuffer of the call.
FailedAtCreation(L) ==
    \/ L.failedAt # "none"
    \/ \E k \in StagingKinds : L.h[k] = "bad"

\* C3: when a call into which a failure was injected at one creation point
\* returns, none of the buffers and memory objects it created is live.
C3_NoLeakOnInjectedFailure ==
    \A t \in Threads :
        (pc[t] = "ret" /\ FailedAtCreation(loc[t])) => LiveBuffers(loc[t]) = {}

\* C4: if vkEndCommandBuffer, vkQueueSubmit or vkQueueWaitIdle fails, the
\* call returns 0 and assigns no output buffer.
C4_ExecutionFailureIsFailure ==
    \A t \in Threads :
        (pc[t] = "ret" /\ loc[t].execFail # {}) =>
            (ret[t] = 0 /\ loc[t].out = "unwritten")

\* C5: if a staging buffer, a staging memory allocation or the descriptor
\* set allocation fails, the call returns 0, assigns no output buffer and
\* never hands the handle that was not created to the driver.
C5_UncheckedFailureIsFailure ==
    \A t \in Threads :
        (pc[t] = "ret" /\ \E k \in StagingKinds \cup {"descriptor_set"} : loc[t].h[k] = "bad")
            => (ret[t] = 0 /\ loc[t].out = "unwritten" /\ loc[t].used = {})

\* C6: on every path on which a processing call returns 0, *output_pixels
\* has not been assigned.
C6_NoOutputOnFailure ==
    \A t \in Threads :
        (pc[t] = "ret" /\ IsProcessing(t) /\ ret[t] = 0) => loc[t].out = "unwritten"

\* A call that got as far as vkBeginCommandBuffer and returned 0 there.
C6_Witness ==
    \E t \in Threads :
        /\ pc[t] = "ret" /\ IsProcessing(t) /\ ret[t] = 0
        /\ loc[t].failedAt = "begin"
        /\ loc[t].out = "unwritten"

\* C7: a processing call that finds the processing flag set returns 0 at
\* once: it creates nothing, allocates nothing, leaves the shared command
\* buffer alone and leaves the flag set.
C7_RejectedCallTouchesNothing ==
    [][\A t \in Threads :
          (pc[t] = "guard_read" /\ g.processing # 0 /\ pc'[t] # pc[t]) =>
              /\ pc'[t] = "ret" /\ ret'[t] = 0
              /\ g' = g
              /\ loc'[t] = loc[t]
              /\ \A k \in Kinds : loc[t].h[k] = "none"]_vars

\* A call rejected by the guard while the other thread's call is in flight.
C7_Witness ==
    \E t \in Threads, u \in Threads :
        /\ t # u /\ InFlight(u)
        /\ pc[t] = "ret" /\ IsProcessing(t) /\ ret[t] = 0
        /\ g.initialized = 1 /\ g.processing = 1
        /\ loc[t] = NoLocals

\* C8: no step taken while a processing call is between the guard and its
\* return destroys the device or one of its pools, layouts or pipeline.
C8_NoTeardownWhileInFlight ==
    [][(\E t \in Threads : InFlight(t)) =>
          \A o \in {"device", "command_pool", "descriptor_pool", "compute_pipeline",
                    "pipeline_layout", "descriptor_set_layout"} :
              g.ctx[o] = "live" => g'.ctx[o] = "live"]_vars

\* C9: when a processing call returns 1, every buffer and memory object it
\* created has been released exactly once and none is live.
C9_SuccessReleasesEverythingOnce ==
    \A t \in Threads :
        (pc[t] = "ret" /\ IsProcessing(t) /\ ret[t] = 1) =>
            /\ LiveBuffers(loc[t]) = {}
            /\ \A k \in BufferKinds :
                 loc[t].h[k] # "bad" => (loc[t].h[k] = "freed" /\ Count(loc[t].rel, k) = 1)

\* A successful call that created all eighteen buffers and memory objects.
C9_Witness ==
    \E t \in Threads :
        /\ pc[t] = "ret" /\ IsProcessing(t) /\ ret[t] = 1
        /\ \A k \in BufferKinds : loc[t].h[k] = "freed"
        /\ Len(loc[t].rel) = Cardinality(Kinds)

\* C10: the descriptor set a call allocated is freed before the call
\* returns, so between calls no set is allocated from the pool.
C10_NoSetAllocatedBetweenCalls ==
    /\ \A t \in Threads : pc[t] = "ret" => loc[t].h["descriptor_set"] # "live"
    /\ (\A t \in Threads : pc[t] \in {"idle", "off"}) => g.sets = 0

(***************************************************************************)
(* Initialisation and teardown (lines 76-376, 1126-1164).                  *)
(***************************************************************************)
\* C11: a processing call that finds initialized = 0 (before any successful
\* vk_init or after vk_cleanup) returns 0 and leaves the globals, the
\* processing flag included, and every per-call handle as they were: no
\* GPU resource is created.
C11_UninitializedCallRejected ==
    [][\A t \in Threads :
         (pc[t] = "check_init" /\ g.initialized = 0 /\ pc'[t] # pc[t])
           => /\ pc'[t] = "ret" /\ ret'[t] = 0
              /\ g' = g
              /\ loc'[t] = loc[t]
              /\ \A k \in Kinds : loc'[t].h[k] = "none"]_vars

\* A vk_process_image call has been rejected on a context that vk_cleanup
\* has torn down.
C11_Witness ==
    \E t \in Threads :
        /\ pc[t] = "ret" /\ op[t] = "vk_process_image" /\ ret[t] = 0
        /\ g.initialized = 0 /\ g.ctx["device"] = "dangling"
        /\ loc[t] = NoLocals

\* C12: vk_init on an initialized context returns 1 and changes neither a
\* handle nor a flag nor the driver's objects.
C12_InitIdempotent ==
    [][\A t \in Threads :
         (pc[t] = "idle" /\ op'[t] = "vk_init" /\ g.initialized = 1)
           => (ret'[t] = 1 /\ g' = g)]_vars

\* vk_init has returned 1 while the descriptor pool still holds the set a
\* failed call left in it: the pool is the one of the earlier vk_init.
C12_Witness ==
    \E t \in Threads :
        /\ pc[t] = "ret" /\ op[t] = "vk_init" /\ ret[t] = 1
        /\ g.initialized = 1 /\ g.sets = 1

\* C13: a vk_init that returns 0 leaves initialized at 0; initialized goes
\* from 0 to 1 only in a vk_init that returns 1; and a processing call that
\* finds it 0 returns 0.
C13_FailedInitLeavesUnusable ==
    [][\A t \in Threads :
         /\ (pc[t] = "idle" /\ op'[t] = "vk_init" /\ ret'[t] = 0)
               => g'.initialized = 0
         /\ (g.initialized = 0 /\ g'.initialized = 1)
               => \E u \in Threads : pc[u] = "idle" /\ op'[u] = "vk_init" /\ ret'[u] = 1
         /\ (pc[t] = "check_init" /\ g.initialized = 0 /\ pc'[t] # pc[t])
               => ret'[t] = 0]_vars

\* A processing call has been rejected while the instance of a failed
\* vk_init is still alive.
C13_Witness ==
    \E t \in Threads :
        /\ pc[t] = "ret" /\ op[t] = "vk_process_image_with_curves" /\ ret[t] = 0
        /\ g.initialized = 0 /\ g.ctx["instance"] = "live"
        /\ loc[t] = NoLocals

\* No enumerated device has a compute-capable queue family.
NoComputeDevice(cfg) == \A i \in 1..Len(cfg) : ComputeFamilies(cfg[i]) = {}

\* C14: a vk_init that enumerated no device with a compute-capable queue
\* family returns 0, whether it is the first vk_init, a retry after a
\* failed one, or a vk_init after vk_cleanup.
C14_NoComputeDeviceFails ==
    \A t \in Threads :
        (pc[t] = "ret" /\ op[t] = "vk_init" /\ loc[t].enumerated
         /\ NoComputeDevice(loc[t].devices))
          => ret[t] = 0

\* The destroy calls of a full teardown.
FullTeardown == <<"wait_idle", "command_pool", "descriptor_pool",
                  "compute_shader_module", "compute_pipeline", "pipeline_layout",
                  "descriptor_set_layout", "device", "instance">>

\* C15: vk_cleanup on an initialized context waits for the device, destroys
\* command pool, descriptor pool, shader module, pipeline, pipeline layout
\* and descriptor-set layout in that order, then the device, then the
\* instance, and clears initialized.
C15_TeardownOrder ==
    [][\A t \in Threads :
         (pc[t] = "idle" /\ op'[t] = "vk_cleanup" /\ g.initialized = 1)
           => (g'.log = FullTeardown /\ g'.initialized = 0)]_vars

C15_Witness ==
    \E t \in Threads :
        /\ pc[t] = "ret" /\ op[t] = "vk_cleanup"
        /\ g.initialized = 0 /\ g.log = FullTeardown
        /\ \A o \in CtxObjs : g.ctx[o] = "dangling" /\ g.live[o] = 0

\* C16: vk_cleanup on a context whose initialized flag is 0 makes no destroy
\* call and changes nothing.
C16_CleanupNoOpWhenUninitialized ==
    [][\A t \in Threads :
         (pc[t] = "idle" /\ op'[t] = "vk_cleanup" /\ g.initialized = 0)
           => g' = g]_vars

\* vk_cleanup has returned on a context that still holds the objects of a
\* vk_init that failed after creating its device.
C16_Witness ==
    \E t \in Threads :
        /\ pc[t] = "ret" /\ op[t] = "vk_cleanup"
        /\ g.initialized = 0 /\ g.ctx["device"] = "live" /\ g.log = <<>>

(***************************************************************************)
(* Crop geometry and uniform packing.                                      *)
(***************************************************************************)
CropEntry == "vk_process_image_with_curves_and_crop"

\* 0 <= left < right <= 1 and 0 <= top < bottom <= 1.
ValidRect(c) ==
    /\ 0 <= c.left /\ c.left < c.right /\ c.right <= Grid
    /\ 0 <= c.top /\ c.top < c.bottom /\ c.bottom <= Grid

\* k is the integer nearest to x / Grid, x >= 0, the half going up.
Nearest(x, k) == 2 * Grid * k - Grid <= 2 * x /\ 2 * x < 2 * Grid * k + Grid

\* C17: for a valid crop rectangle the crop form reports the width
\* round(right * W) - round(left * W) and the height
\* round(bottom * H) - round(top * H): each edge is rounded by itself.
C17_CropRoundsEachEdge ==
    (geo.entry = CropEntry /\ ValidRect(geo.crop))
      => /\ Len(geo.reported) = 2
         /\ \E kl, kr \in 0..geo.width :
              /\ Nearest(geo.crop.left * geo.width, kl)
              /\ Nearest(geo.crop.right * geo.width, kr)
              /\ geo.reported[1] = kr - kl
         /\ \E kt, kb \in 0..geo.height :
              /\ Nearest(geo.crop.top * geo.height, kt)
              /\ Nearest(geo.crop.bottom * geo.height, kb)
              /\ geo.reported[2] = kb - kt

\* A crop whose edges fall on half pixels: on a 2 x 2 image the rectangle
\* from 1/Grid to 1 - 1/Grid has its edges at 0.5 and 1.5, rounded to 1 and 2.
C17_Witness ==
    /\ geo.entry = CropEntry /\ ValidRect(geo.crop)
    /\ geo.width = 2 /\ geo.height = 2
    /\ geo.crop = [left |-> 1, top |-> 1, right |-> Grid - 1, bottom |-> Grid - 1]
    /\ geo.reported = <<1, 1>>

\* C18 as stated: a crop rectangle that violates the ordering or has a
\* component outside [0,1] is replaced by the full frame and the reported
\* size is W x H.
C18_InvalidCropIsFullFrame ==
    (geo.entry = CropEntry /\ ~ValidRect(geo.crop))
      => (geo.eff = FullFrame /\ geo.reported = <<geo.width, geo.height>>)

\* The rectangle is degenerate once its outer edges are pulled in: the
\* ordering is violated, or left / top are at or beyond 1, or right / bottom
\* are at or below 0.
Degenerate(c) ==
    \/ c.left >= c.right \/ c.top >= c.bottom
    \/ c.left >= Grid \/ c.top >= Grid
    \/ c.right <= 0 \/ c.bottom <= 0

MaxOf2(a, b) == IF a >= b THEN a ELSE b
MinOf2(a, b) == IF a <= b THEN a ELSE b

\* C18, amended: a left or top below 0 is taken as 0 and a right or bottom
\* above 1 as 1; if the rectangle is degenerate the effective crop is the
\* full frame and the reported size is W x H; otherwise the effective crop
\* is the clamped rectangle, not the full frame.
C18_ClampThenFallback ==
    geo.entry = CropEntry
      => /\ Degenerate(geo.crop)
              => (geo.eff = FullFrame /\ geo.reported = <<geo.width, geo.height>>)
         /\ ~Degenerate(geo.crop)
              => geo.eff = [left |-> MaxOf2(geo.crop.left, 0),
                            top |-> MaxOf2(geo.crop.top, 0),
                            right |-> MinOf2(geo.crop.right, Grid),
                            bottom |-> MinOf2(geo.crop.bottom, Grid)]

\* A rectangle that starts left of the image and ends inside it has been
\* clamped, and the reported width is less than W.
C18_Witness ==
    /\ geo.entry = CropEntry /\ ~ValidRect(geo.crop) /\ ~Degenerate(geo.crop)
    /\ geo.crop.left < 0 /\ geo.eff.left = 0
    /\ geo.eff.right = geo.crop.right
    /\ 1 <= geo.reported[1] /\ geo.reported[1] < geo.width

\* C19: vk_process_image and vk_process_image_with_curves do not crop: for
\* every count 0..20 and every vector the output buffer, the dispatch and
\* the returned buffer have the input's dimensions.
C19_NoCropWithoutCropEntry ==
    (geo.entry \in Entries \ {CropEntry})
      => /\ geo.internal.output_width = geo.width
         /\ geo.internal.output_height = geo.height
         /\ geo.internal.output_size = geo.width * geo.height * 4

C21_CropSlotsHoldResolvedCrop ==
    geo.entry # "none"
      => /\ geo.internal.packed[15] = geo.eff.left
         /\ geo.internal.packed[16] = geo.eff.top
         /\ geo.internal.packed[17] = geo.eff.right
         /\ geo.internal.packed[18] = geo.eff.bottom

\* C22: for an output of ow x oh pixels, ow and oh not negative, the group
\* counts gx and gy are the ceilings of ow / 16 and oh / 16: the grid covers
\* the output and has no row or column of groups that lies wholly outside.
C22_DispatchCoversOutput ==
    (geo.entry # "none" /\ geo.internal.output_width >= 0
                        /\ geo.internal.output_height >= 0)
      => /\ 16 * geo.internal.group_count_x >= geo.internal.output_width
         /\ 16 * (geo.internal.group_count_x - 1) < geo.internal.output_width
         /\ 16 * geo.internal.group_count_y >= geo.internal.output_height
         /\ 16 * (geo.internal.group_count_y - 1) < geo.internal.output_height

\* A 34 x 32 image cropped to its top-left 17 x 16 pixels is dispatched as
\* 2 x 1 groups.
C22_Witness ==
    /\ geo.entry = CropEntry
    /\ geo.width = 34 /\ geo.height = 32
    /\ geo.internal.output_width = 17 /\ geo.internal.output_height = 16
    /\ geo.internal.group_count_x = 2 /\ geo.internal.group_count_y = 1

(***************************************************************************)
(* The probe, the recording and the order of the steps of a call.          *)
(***************************************************************************)
\* C23: vk_is_available changes no handle, no flag and no driver object of
\* the context (the instance it creates is gone when it returns), and it
\* returns 1 exactly when vkCreateInstance succeeded.
C23_ProbeLeavesContext ==
    [][\A t \in Threads :
         (pc[t] = "idle" /\ op'[t] = "vk_is_available")
           => /\ g' = g
              /\ ret'[t] \in {0, 1}
              /\ ret'[t] = 1 <=> loc'[t].failedAt = "none"]_vars

\* The probe has succeeded next to a live context, whose instance is still
\* the only one.
C23_Witness ==
    \E t \in Threads :
        /\ pc[t] = "ret" /\ op[t] = "vk_is_available" /\ ret[t] = 1
        /\ g.initialized = 1 /\ g.live["instance"] = 1

\* C26: a call that has recorded its commands has recorded, in this order:
\* copy of the staged input, barrier transfer-write to shader-read, bind
\* pipeline and descriptor set, dispatch, barrier shader-write to
\* transfer-read, copy of the output; the dispatch comes after the first
\* barrier and the output copy after the second.
C26_RecordingOrder ==
    \A t \in Threads :
        pc[t] = "end"
          => /\ g.recorded = <<"copy_input", "barrier_transfer_to_compute",
                               "bind_pipeline", "bind_descriptor_sets", "dispatch",
                               "barrier_compute_to_transfer", "copy_output">>
             /\ \A i, j \in 1..Len(g.recorded) :
                  /\ (g.recorded[i] = "dispatch"
                      /\ g.recorded[j] = "barrier_transfer_to_compute") => j < i
                  /\ (g.recorded[i] = "copy_output"
                      /\ g.recorded[j] = "barrier_compute_to_transfer") => j < i

C26_Witness ==
    \E t \in Threads :
        /\ pc[t] = "end" /\ g.cmd = "recording"
        /\ Len(g.recorded) = 7 /\ g.recorded[5] = "dispatch"

\* p is an initial part of q.
IsPrefix(p, q) == Len(p) <= Len(q) /\ \A i \in 1..Len(p) : p[i] = q[i]

\* C27: the calls of a processing call on the command buffer and the queue
\* come in the order begin, end, submit, wait, and the output staging memory
\* is mapped after them; the command buffer is recording only between begin
\* and end and pending only from the submission on; no buffer or memory of a
\* call that got past its allocations is released before the wait returned,
\* and the output is read only after it.
C27_CallPhasesInOrder ==
    /\ g.cmd = "recording" => \E t \in Threads : loc[t].calls = <<"begin">>
    /\ g.cmd = "pending"
         => \E t \in Threads : Len(loc[t].calls) >= 3 /\ loc[t].calls[3] = "submit"
    /\ \A t \in Threads :
        /\ IsPrefix(loc[t].calls, <<"begin", "end", "submit", "wait", "map_output">>)
        /\ (loc[t].failedAt = "none" /\ loc[t].rel # <<>>)
             => (Len(loc[t].calls) >= 4 /\ loc[t].calls[4] = "wait")
        /\ loc[t].out = "written"
             => (Len(loc[t].calls) >= 4 /\ loc[t].calls[4] = "wait")

\* A call has gone through all phases and returned 1 with the command
\* buffer back in its initial state.
C27_Witness ==
    \E t \in Threads :
        /\ pc[t] = "ret" /\ ret[t] = 1 /\ IsProcessing(t)
        /\ loc[t].calls = <<"begin", "end", "submit", "wait", "map_output">>
        /\ loc[t].execFail = {} /\ loc[t].rel # <<>>
        /\ g.cmd = "initial"

RECURSIVE Reverse(_)
Reverse(q) == IF q = <<>> THEN <<>> ELSE Append(Reverse(Tail(q)), Head(q))

\* The buffers and memory objects created before the checked call s.
CreatedBefore(s) ==
    SubSeq(CheckedCreates, 1,
           (CHOOSE i \in 1..Len(CheckedCreates) : CheckedCreates[i] = s) - 1)

\* C29 as stated: when a checked creation fails, what was created so far is
\* released in the reverse of the order of creation, the input buffer and
\* its memory last.
C29_UnwindInReverseOrder ==
    \A t \in Threads :
        (pc[t] = "ret" /\ loc[t].failedAt \in BufferKinds)
          => loc[t].rel = Reverse(CreatedBefore(loc[t].failedAt))

\* C29, amended: when a checked creation fails, everything created so far
\* is released once before the return: first the LUT buffers and memory
\* objects in the reverse of the order of their creation, then the input,
\* output and uniform buffers and memory objects in the order of their
\* creation, the input buffer first.
C29_UnwindLutsReversedBaseForward ==
    \A t \in Threads :
        (pc[t] = "ret" /\ loc[t].failedAt \in BufferKinds)
          => LET created == CreatedBefore(loc[t].failedAt)
             IN /\ loc[t].rel =
                     Reverse(SelectSeq(created, LAMBDA k : k \in LutKinds))
                     \o SelectSeq(created, LAMBDA k : k \notin LutKinds)
                /\ \A i \in 1..Len(created) : loc[t].h[created[i]] = "freed"

\* The allocation of the memory of the blue LUT has failed: seven LUT
\* objects and six others have been released.
C29_Witness ==
    \E t \in Threads :
        /\ pc[t] = "ret" /\ loc[t].failedAt = "blue_lut_memory"
        /\ Len(loc[t].rel) = 13
        /\ loc[t].rel[1] = "green_lut_memory" /\ loc[t].rel[7] = "rgb_lut_buffer"
        /\ loc[t].rel[8] = "input_buffer" /\ loc[t].rel[13] = "uniform_memory"

\* C24: a vk_process_image call computes, uploads and returns what
\* vk_process_image_with_curves does for the same image and vector and four
\* tables with lut[i] = i for every i in 0..255: the four uploaded tables
\* are that identity, and the sizes, the uniform block and the dispatch are
\* the same.
C24_PlainFormIsCurvesWithIdentity ==
    tone.geom.entry = "vk_process_image"
      => /\ \A c \in 1..4 : \A i \in 0..255 : tone.luts[c][i] = i
         /\ [tone EXCEPT !.geom.entry = "vk_process_image_with_curves"]
              = [ geom |-> ProcessGeometry("vk_process_image_with_curves",
                                           tone.geom.width, tone.geom.height,
                                           tone.geom.adj, tone.geom.n, tone.geom.crop),
                  luts |-> UploadLuts(<<PlainLut, PlainLut, PlainLut, PlainLut>>) ]

\* vk_process_image has been called on a 2 x 2 image with 14 adjustments;
\* the first and last entries of each uploaded table are 0 and 255.
C24_Witness ==
    /\ tone.geom.entry = "vk_process_image" /\ tone.geom.n = 14
    /\ tone.geom.width = 2 /\ tone.geom.internal.output_width = 2
    /\ \A c \in 1..4 : tone.luts[c][255] = 255 /\ tone.luts[c][0] = 0

\* C30: the memory type index used for each of the nine buffers has its
\* bit set in that buffer's own type filter and names a type with the
\* flags required for that buffer.
C30_IndexFromOwnRequirements ==
    mem.called
      => \A k \in 1..Len(Buffers) :
           LET b == Buffers[k]
           IN /\ mem.index[b] \in mem.filter[BufferUsage(b)]
              /\ RequiredFlags(b) \subseteq mem.types[mem.index[b] + 1]

\* What a caller can observe of a run, apart from its log output: the
\* globals with the driver's objects, and the results of the last call.
Observable(R) ==
    [ g |-> R.g, ret |-> R.ret, reported |-> R.reported, dims |-> R.dims,
      out |-> R.out ]

\* C25: after every call of the same sequence of API calls, the run with
\* verbose logging and the run without it have the same return value, the
\* same output dimensions and output buffer, and the same context
\* (initialized, processing, live handles).
C25_VerboseLoggingIsUnobservable ==
    Observable(runs.quiet) = Observable(runs.verbose)

\* Both runs have initialized and completed a processing call that
\* returned 1; only the verbose run has written to stdout.
C25_Witness ==
    /\ runs.quiet.ret = 1 /\ runs.quiet.out = "written"
    /\ runs.verbose.ret = 1 /\ runs.verbose.out = "written"
    /\ runs.quiet.stdout = <<>> /\ runs.quiet.verbose_logging = 0
    /\ runs.verbose.verbose_logging = 1
    /\ Len(runs.verbose.stdout) > 0
    /\ runs.verbose.stdout[Len(runs.verbose.stdout)] = "Complete"

(***************************************************************************)
(* Buffer sizes, device selection, failed initialisation.                  *)
(***************************************************************************)
\* c is the product a * b, b > 0, said without forming the product.
IsProduct(c, a, b) == c \div b = a /\ c % b = 0

\* C31: for every width >= 1 and height >= 1 the input buffer size is the
\* least multiple of 4 that is >= width * height * 3, the output buffer
\* size is outputWidth * outputHeight * 4, the uniform size is 80 bytes and
\* a LUT buffer is 256 bytes.
C31_BufferSizes ==
    (siz.called /\ (siz.trapped \/
                     (siz.internal.output_width >= 1 /\ siz.internal.output_height >= 1)))
      => /\ ~siz.trapped
         /\ IsProduct(siz.internal.input_size, 3 * siz.width, siz.height)
         /\ siz.internal.input_buffer_size % 4 = 0
         /\ siz.internal.input_buffer_size >= siz.internal.input_size
         /\ siz.internal.input_buffer_size - siz.internal.input_size <= 3
         /\ IsProduct(siz.internal.output_buffer_size,
                      4 * siz.internal.output_width, siz.internal.output_height)
         /\ siz.internal.uniform_size = 80
         /\ LutSize = 256

\* The devices of cfg that have a compute-capable queue family.
ComputeDevices(cfg) == {i \in 1..Len(cfg) : ComputeFamilies(cfg[i]) # {}}

\* C32: when a vk_init that ran the selection returns 1, physical_device
\* is the lowest-indexed device it enumerated that has a compute-capable
\* queue family, and queue_family_index is the lowest such family of that
\* device; on the first initialization and on one after vk_cleanup.
C32_LowestComputeDeviceSelected ==
    \A t \in Threads :
        (pc[t] = "ret" /\ op[t] = "vk_init" /\ ret[t] = 1 /\ loc[t].enumerated)
          => /\ ComputeDevices(loc[t].devices) # {}
             /\ g.physical_device =
                  [idx |-> MinOf(ComputeDevices(loc[t].devices)), stale |-> FALSE]
             /\ g.queue_family_index =
                  MinOf(ComputeFamilies(loc[t].devices[g.physical_device.idx])) - 1

\* C33: when vk_init returns 0, the driver holds no more live objects of
\* any kind than before the call: what the attempt created, it destroyed.
C33_FailedInitDestroysItsObjects ==
    [][\A t \in Threads :
         (pc[t] = "idle" /\ op'[t] = "vk_init" /\ ret'[t] = 0)
           => \A o \in CtxObjs : g'.live[o] <= g.live[o]]_vars

(***************************************************************************)
(* The crop form's array, the output dimensions.                           *)
(***************************************************************************)
\* C34: for every adjustment_count in 0..20 the crop form writes only
\* within the 18 elements of extended_adjustments: the copy of the caller's
\* adjustments does not write at index 18 or beyond.
C34_CopyStaysInExtendedArray ==
    (geo.entry = CropEntry /\ geo.n \in 0..20) => ~geo.overflow

\* C35: in every processing call, through any entry point and for any crop
\* values in the arguments or at the positions 14-17 of the vector, the
\* output is at least 1 x 1 and at most width x height pixels, so the
\* output buffer size and both group counts are positive.
C35_OutputWithinInput ==
    geo.entry # "none"
      => /\ 1 <= geo.internal.output_width
         /\ geo.internal.output_width <= geo.width
         /\ 1 <= geo.internal.output_height
         /\ geo.internal.output_height <= geo.height
         /\ geo.internal.output_buffer_size > 0
         /\ geo.internal.group_count_x > 0
         /\ geo.internal.group_count_y > 0

\* C36: for every input to the crop form, *output_width and *output_height
\* are the dimensions vk_process_image_internal recomputes from the
\* positions 14-17, and the buffer it returns has
\* *output_width x *output_height x 4 bytes.
C36_ReportedMatchesReturnedBuffer ==
    (siz.called /\ siz.entry = CropEntry)
      => /\ ~siz.trapped
         /\ siz.reported = << siz.internal.output_width, siz.internal.output_height >>
         /\ IF siz.reported[2] = 0
              THEN siz.internal.output_size = 0
              ELSE IsProduct(siz.internal.output_size,
                             4 * siz.reported[1], siz.reported[2])

(***************************************************************************)
(* Re-initialisation and repeated cleanup.                                 *)
(***************************************************************************)
\* C37: a vk_init that returns 1 on a context that vk_cleanup has torn down
\* leaves the processing flag at 0, whatever happened before the cleanup.
C37_ReinitClearsProcessing ==
    [][\A t \in Threads :
         (pc[t] = "idle" /\ op'[t] = "vk_init" /\ ret'[t] = 1
          /\ g.initialized = 0 /\ g.log # <<>>)
           => g'.processing = 0]_vars

\* C38: in a sequence of vk_init and vk_cleanup calls no object is
\* destroyed a second time, the driver never holds fewer than zero objects
\* of a kind, and a vk_cleanup on a context that is not initialized, as
\* after a vk_cleanup, makes no destroy call and changes nothing.
C38_CleanupIdempotent ==
    [][/\ ~g'.twice
       /\ \A o \in CtxObjs : g'.live[o] >= 0
       /\ \A t \in Threads :
            (pc[t] = "idle" /\ op'[t] = "vk_cleanup" /\ g.initialized = 0)
              => (loc'[t].destroys = <<>> /\ g'.log = g.log /\ g'.ctx = g.ctx
                  /\ g'.live = g.live)]_vars

\* A vk_cleanup has returned without a destroy call on a context that an
\* earlier vk_cleanup has torn down completely.
C38_Witness ==
    \E t \in Threads :
        /\ pc[t] = "ret" /\ op[t] = "vk_cleanup" /\ loc[t].destroys = <<>>
        /\ g.initialized = 0 /\ g.log = FullTeardown /\ ~g.twice
        /\ \A o \in CtxObjs : g.ctx[o] = "dangling" /\ g.live[o] = 0

(***************************************************************************)
(* The memory type search.                                                 *)
(***************************************************************************)
\* C39: find_memory_type returns the least index below the memory type
\* count whose bit is set in the filter and whose flags contain the
\* requested ones, it returns ~0u exactly when there is no such index, and
\* a processing call that got ~0u fails.
C39_FindMemoryType ==
    fnd.called =>
        LET qualifying == { i \in 0..(Len(fnd.types) - 1) :
                              /\ i \in fnd.type_filter
                              /\ fnd.properties \subseteq fnd.types[i + 1] }
        IN /\ qualifying # {} =>
                (fnd.index \in qualifying
                 /\ \A k \in qualifying : fnd.index <= k)
           /\ (fnd.index = NoMemoryType) <=> (qualifying = {})
           /\ (fnd.index = NoMemoryType /\ fnd.result # "pending")
                => fnd.result = "failed"

====
